---- MODULE Spec2Model ----
(***************************************************************************)
(* Model of the Coup de Food menu page script: the in-memory catalog, cart *)
(* and favorites, their copies in localStorage and in the embedded         *)
(* #menuData script tag, and the handlers that change them.                *)
(***************************************************************************)
EXTENDS Integers, Sequences, FiniteSets, TLC

\* ------------------------------------------------------------------ bounds
MaxId == 2          \* largest dish id the admin handlers may allocate
MaxDishes == 2      \* largest number of dishes kept in the catalog
MaxQty == 3         \* largest quantity of one cart line
MaxLines == 2       \* largest number of cart lines
MaxStat == 2        \* largest total quantity recorded in the order stats
MaxFav == 2         \* largest dish id whose heart button is clicked
MaxAdminStat == 1   \* as MaxStat, while the admin edits the menu
MaxImportId == 3    \* largest dish id an import may allocate on its own
MaxAttempts == 2    \* failed unlock attempts counted after one opening
MaxOrdered == 6     \* as MaxStat, where the checkouts are followed on their own
MaxCalls == 2       \* calls of initializeAdminComponents on one page
MaxRetries == 2     \* largest maxRetries passed to initializeAdminComponents
MaxTries == 5       \* attempts and initAdmin runs are counted up to this number
MaxCleanups == 2    \* cleanup functions returned by manageEventListener and kept
MaxEntries == 2     \* longest handler array of one element and event
MaxPending == 2     \* fetches the service worker is waiting for at one time

\* ------------------------------------------------------- JavaScript values
\* A parsed menuData value: a catalog (both members are arrays), the object
\* {} (neither member is an array) or null.
Catalog(cats, ds) == [kind |-> "catalog", categories |-> cats, dishes |-> ds]
EmptyObject == [kind |-> "object", categories |-> <<>>, dishes |-> <<>>]
NullValue == [kind |-> "null", categories |-> <<>>, dishes |-> <<>>]
EmptyCatalog == Catalog(<<>>, <<>>)

Dish(i, c, n, ing, cal, prot, p, img, pop) ==
    [id |-> i, category |-> c, name |-> n, ingredients |-> ing, calories |-> cal,
     proteins |-> prot, price |-> p, image |-> img, popular |-> pop]

\* A string held by localStorage or by the script tag: missing (no key, no
\* element), the empty string, text that is not JSON, or the JSON text of a
\* value (JSON.stringify / JSON.parse).
Absent(dflt) == [t |-> "absent", v |-> dflt]
EmptyText(dflt) == [t |-> "empty", v |-> dflt]
Garbage(dflt) == [t |-> "garbage", v |-> dflt]
Stringify(val) == [t |-> "json", v |-> val]

NoStats == [dishes |-> <<>>, categories |-> <<>>]

\* Snapshots embedded in the served page: one dish, two dishes.
ServedSnapshot ==
    Catalog(<<[name |-> "Plats"]>>,
            <<Dish(1, "Plats", "Poulet", "riz", 300, 25, 2500, "", TRUE)>>)
ServedMenu ==
    Catalog(<<[name |-> "Plats"], [name |-> "Desserts"]>>,
            <<Dish(1, "Plats", "Poulet", "riz", 300, 25, 2500, "", TRUE),
              Dish(2, "Desserts", "Tarte", "", 0, 0, 1000, "", FALSE)>>)

\* ------------------------------------------------------------------ state
VARIABLES
    phase,          \* "fresh": script evaluated; "ready": DOMContentLoaded handled
    menuData,       \* let menuData
    cart,           \* let cart
    favorites,      \* let favorites
    store,          \* localStorage: menuDataCustom, cart, favorites, orderStats
    storeFull,      \* localStorage.setItem throws (quota exceeded)
    embedded,       \* textContent of the #menuData script tag in the live page
    served,         \* textContent of the #menuData tag as the page is served
    cartCountText,  \* .cart-count textContent
    subtotalText,   \* #subtotal textContent (amount)
    cartOpen,       \* cartModal.style.right === '0px'
    confirmShown,   \* #clearCartConfirmation has class show
    specialRequest, \* #specialRequest value
    admin,          \* admin modal: modal, lock, content and error are displayed
    gate,           \* unlock attempts since the modal was opened (history)
    adminInitialized,               \* let adminInitialized
    adminInitializationInProgress,  \* let adminInitializationInProgress
    calls,          \* the promises initializeAdminComponents has returned
    domState,       \* what initialization finds: the modal, initAdmin, listeners
    initRuns,       \* runs of initAdmin made by attemptInitialization (history)
    eventListeners, \* the eventListeners map: element, event -> entries
    attached,       \* the listeners the elements themselves hold
    cleanups,       \* the cleanup functions manageEventListener has returned
    carousel,       \* the ModernCarousel object and its timers
    caches,         \* CacheStorage of the service worker: name -> urls held
    worker,         \* life cycle of the service worker
    requests,       \* fetch events whose respondWith promise is pending
    answered,       \* the last answer of the fetch handler
    search,         \* search overlay, input value and debounce timer
    hiddenCards,    \* the dish cards with display none
    other,          \* recordOrder of another page instance on the same store
    ordered,        \* quantity of all lines checked out (history, -1: off)
    threw,          \* an uncaught exception left the last handler
    sent,           \* order summary the last handler handed to window.open
    alertText,      \* text of the alert the last handler raised
    hist,           \* run of add/remove calls on one id (history)
    last            \* the last handler run and its argument (history)

dataVars == <<menuData, cart, favorites>>
persistVars == <<store, storeFull, embedded, served>>
uiVars == <<cartCountText, subtotalText, cartOpen, confirmShown, specialRequest>>
outVars == <<threw, sent, alertText>>
histVars == <<hist, last>>
adminVars == <<admin, gate>>
initVars == <<adminInitialized, adminInitializationInProgress, calls, domState, initRuns>>
listenerVars == <<eventListeners, attached, cleanups>>
carouselVars == <<carousel>>
workerVars == <<caches, worker, requests, answered>>
searchVars == <<search, hiddenCards>>
restVars == <<listenerVars, carouselVars, workerVars, searchVars, other>>
sideVars == <<initVars, restVars>>
pageVars == <<phase, dataVars, persistVars, uiVars, adminVars, hist, ordered>>
vars == <<phase, dataVars, persistVars, uiVars, adminVars, outVars, histVars,
          initVars, restVars, ordered>>

Keys == {"menuDataCustom", "cart", "favorites", "orderStats"}

KeyDefault(k) ==
    CASE k = "menuDataCustom" -> NullValue
      [] k = "cart" -> <<>>
      [] k = "favorites" -> <<>>
      [] k = "orderStats" -> NoStats

EmptyStore == [k \in Keys |-> Absent(KeyDefault(k))]

NoOrder == [items |-> <<>>, request |-> "", subtotal |-> 0]

\* The admin modal as the page shows it before it is first opened: closed,
\* its lock screen in place of its content.
AdminClosed == [modal |-> FALSE, lock |-> TRUE, content |-> FALSE, error |-> FALSE]

\* What attemptInitialization finds: the #adminModal element, an initAdmin
\* that returns true, an initEventListeners that does not throw.
DomReady == [modal |-> TRUE, initAdmin |-> TRUE, listeners |-> TRUE]

\* No carousel object yet.
NoCarousel ==
    [built |-> FALSE, slides |-> 0, currentIndex |-> 0, isAnimating |-> FALSE,
     transition |-> FALSE, autoSlide |-> FALSE, hidden |-> FALSE]

\* No request answered yet.
NoAnswer == [method |-> "", mode |-> "", url |-> "", from |-> "none"]

\* The search overlay as initSearch finds it: closed, the input empty, no
\* timer pending; typed is the value of the last keystroke and ran the term
\* of the last filterDishes call (history).
SearchClosed == [open |-> FALSE, value |-> "", timers |-> 0, typed |-> "", ran |-> ""]

OtherIdle == [pc |-> "idle", lines |-> <<>>, stats |-> [dishes |-> <<>>, categories |-> <<>>]]

\* History of the unlock attempts made since the modal was last opened:
\* whether one of them supplied the passcode character for character, and
\* how many of them did not unlock.
NoAttempts == [exact |-> FALSE, failed |-> 0]

\* History of the current run of addToCart / removeFromCart calls for one dish
\* id: the id (0: no run, -1: runs are not recorded), the calls counted since
\* the run began on a cart without a line for the id, whether the run began
\* with a removeFromCart, and whether the cart was empty when it began.
NoHist == [id |-> 0, adds |-> 0, removes |-> 0, lead |-> FALSE, empty |-> FALSE]
HistOff == [NoHist EXCEPT !.id = -1]

Script == [op |-> "script", arg |-> 0]
LastOff == [op |-> "off", arg |-> 0]

HistReset(h) == IF h.id = -1 THEN h ELSE NoHist

\* After addToCart(id): found tells whether the dish was in the catalog,
\* hadLine whether the cart had a line for it, wasEmpty whether it was empty.
HistAdd(h, id, found, hadLine, wasEmpty) ==
    IF h.id = -1 THEN h
    ELSE IF ~found THEN (IF h.id = id THEN NoHist ELSE h)
    ELSE IF h.id = id /\ h.removes = 0 THEN [h EXCEPT !.adds = @ + 1]
    ELSE IF ~hadLine
         THEN [id |-> id, adds |-> 1, removes |-> 0, lead |-> FALSE, empty |-> wasEmpty]
    ELSE IF h.id = id THEN NoHist ELSE h

\* After removeFromCart(id).
HistRemove(h, id, hadLine, wasEmpty) ==
    IF h.id = -1 THEN h
    ELSE IF h.id = id /\ h.removes < h.adds THEN [h EXCEPT !.removes = @ + 1]
    ELSE IF ~hadLine
         THEN [id |-> id, adds |-> 0, removes |-> 0, lead |-> TRUE, empty |-> wasEmpty]
    ELSE IF h.id = id THEN NoHist ELSE h

\* What a handler leaves behind: its name and argument (history, kept unless
\* last.op is "off"), whether an exception left it, the alert it raised and
\* the order summary it sent.
Done(op, arg, exception, alert, order) ==
    /\ last' = IF last.op = "off" THEN last ELSE [op |-> op, arg |-> arg]
    /\ threw' = exception
    /\ alertText' = alert
    /\ sent' = order

\* --------------------------------------------------------- array helpers
\* Variant of FindIndex: a search that fails answers the last index.
FindIndexOrLast(seq, id) ==
    IF \E i \in 1..Len(seq) : seq[i].id = id
    THEN CHOOSE i \in 1..Len(seq) :
            /\ seq[i].id = id
            /\ \A j \in 1..(i - 1) : seq[j].id # id
    ELSE Len(seq)

\* Array.prototype.findIndex with d => d.id === id; 0 stands for -1.
FindIndex(seq, id) ==
    IF \E i \in 1..Len(seq) : seq[i].id = id
    THEN CHOOSE i \in 1..Len(seq) :
            /\ seq[i].id = id
            /\ \A j \in 1..(i - 1) : seq[j].id # id
    ELSE 0

\* Array.prototype.indexOf on an array of numbers; 0 stands for -1.
IndexOf(seq, x) ==
    IF \E i \in 1..Len(seq) : seq[i] = x
    THEN CHOOSE i \in 1..Len(seq) :
            /\ seq[i] = x
            /\ \A j \in 1..(i - 1) : seq[j] # x
    ELSE 0

\* Variant of Splice: the first element goes, whatever the index.
SpliceHead(seq, i) == Tail(seq)

\* Array.prototype.splice(index, 1)
Splice(seq, i) == SubSeq(seq, 1, i - 1) \o SubSeq(seq, i + 1, Len(seq))

\* Variant of SumQty: the number of lines.
SumQtyLines(lines) == Len(lines)

RECURSIVE SumQty(_)
\* cart.reduce((total, item) => total + item.quantity, 0)
SumQty(lines) ==
    IF lines = <<>> THEN 0
    ELSE lines[1].quantity + SumQty(Tail(lines))

RECURSIVE SumPrice(_)
\* cart.reduce((sum, item) => sum + (item.price * item.quantity), 0)
SumPrice(lines) ==
    IF lines = <<>> THEN 0
    ELSE lines[1].price * lines[1].quantity + SumPrice(Tail(lines))

\* ------------------------------------------------------------ page load
\* The script has been evaluated on a page served with the snapshot text
\* snapshot, over a localStorage holding st.
InitPage(snapshot, st, full, h, l) ==
    /\ phase = "fresh"
    /\ menuData = EmptyObject
    /\ cart = <<>>
    /\ favorites = <<>>
    /\ store = st
    /\ storeFull = full
    /\ served = snapshot
    /\ embedded = snapshot
    /\ cartCountText = 0
    /\ subtotalText = 0
    /\ cartOpen = FALSE
    /\ confirmShown = FALSE
    /\ specialRequest = ""
    /\ admin = AdminClosed
    /\ gate = NoAttempts
    /\ threw = FALSE
    /\ sent = NoOrder
    /\ alertText = ""
    /\ hist = h
    /\ last = l

\* Module state of the admin initialization, on a complete document.
InitAdminInit(d) ==
    /\ adminInitialized = FALSE
    /\ adminInitializationInProgress = FALSE
    /\ calls = <<>>
    /\ domState = d
    /\ initRuns = 0

InitListeners ==
    /\ eventListeners = <<>>
    /\ attached = {}
    /\ cleanups = {}

\* No service worker registered, no cache.
InitWorker ==
    /\ caches = <<>>
    /\ worker = "none"
    /\ requests = <<>>
    /\ answered = NoAnswer

InitSearch ==
    /\ search = SearchClosed
    /\ hiddenCards = {}

InitWith(snapshot, st, full, h, l) ==
    /\ InitPage(snapshot, st, full, h, l)
    /\ InitAdminInit(DomReady)
    /\ InitListeners
    /\ carousel = NoCarousel
    /\ InitWorker
    /\ InitSearch
    /\ other = OtherIdle
    /\ ordered = -1

\* The page with the served menu, the quantities checked out being counted.
InitCounted(snapshot) ==
    /\ InitPage(snapshot, EmptyStore, FALSE, HistOff, Script)
    /\ InitAdminInit(DomReady)
    /\ InitListeners
    /\ carousel = NoCarousel
    /\ InitWorker
    /\ InitSearch
    /\ other = OtherIdle
    /\ ordered = 0

\* A first visit: nothing stored yet, a two-dish menu.
Init == InitWith(Stringify(ServedMenu), EmptyStore, FALSE, NoHist, Script)

\* ------------------------------------------------- admin initialization
\* A promise returned by initializeAdminComponents: its state, the retryCount
\* and maxRetries of the call it follows, the timer it waits for ("attempt":
\* setTimeout(attemptInitialization), "recall": setTimeout of the recursive
\* call) and the attempts run for it (history, counted up to MaxTries).
Promise(st, rc, mr, tm, n) ==
    [state |-> st, retryCount |-> rc, maxRetries |-> mr, timer |-> tm, attempts |-> n]

UpTo(n) == IF n < MaxTries THEN n + 1 ELSE MaxTries

\* Variant of CallOutcome: a call is not refused while another is in progress.
CallOutcomeUnguarded(initialized, inProgress) == IF initialized THEN "true" ELSE "start"

\* The two guards at the head of initializeAdminComponents.
CallOutcome(initialized, inProgress) ==
    CASE initialized -> "true"
      [] inProgress -> "false"
      [] OTHER -> "start"

\* One run of attemptInitialization for a call with retryCount rc: the state
\* of the promise, the timer set, whether adminInitialized is set and
\* whether adminInitializationInProgress is cleared.
AttemptOutcome(rc, mr, d) ==
    IF ~d.modal
    THEN IF rc < mr
         THEN [state |-> "pending", timer |-> "attempt", done |-> FALSE, free |-> FALSE]
         ELSE [state |-> "false", timer |-> "none", done |-> FALSE, free |-> TRUE]
    ELSE IF ~(d.initAdmin /\ d.listeners)
         THEN IF rc < mr
              THEN [state |-> "pending", timer |-> "recall", done |-> FALSE, free |-> FALSE]
              ELSE [state |-> "false", timer |-> "none", done |-> FALSE, free |-> TRUE]
         ELSE [state |-> "true", timer |-> "none", done |-> TRUE, free |-> TRUE]

\* The body of initializeAdminComponents(rc, mr) on a document that is no
\* longer loading, its promise being entry i of calls (a new entry for a
\* call from outside, the waiting entry for the recursive call, whose
\* result resolves it); n counts the attempts run for the entry so far.
CallInit(i, rc, mr, n) ==
    LET how == CallOutcome(adminInitialized, adminInitializationInProgress)
        out == AttemptOutcome(rc, mr, domState)
        p == IF how = "start"
             THEN Promise(out.state, rc, mr, out.timer, UpTo(n))
             ELSE Promise(how, rc, mr, "none", n)
    IN  /\ calls' = IF i > Len(calls) THEN Append(calls, p) ELSE [calls EXCEPT ![i] = p]
        /\ adminInitialized' = (adminInitialized \/ (how = "start" /\ out.done))
        /\ adminInitializationInProgress' =
              IF how = "start" THEN ~out.free ELSE adminInitializationInProgress
        /\ initRuns' = IF how = "start" /\ domState.modal THEN UpTo(initRuns) ELSE initRuns
        /\ UNCHANGED domState

\* Some code of the page calls initializeAdminComponents(0, maxRetries).
InitializeAdminComponents(maxRetries) ==
    /\ phase = "ready"
    /\ Len(calls) < MaxCalls
    /\ CallInit(Len(calls) + 1, 0, maxRetries, 0)
    /\ Done("initializeAdminComponents", maxRetries, FALSE, "", NoOrder)
    /\ UNCHANGED <<pageVars, restVars>>

\* The timer set when the modal was not found fires: attemptInitialization
\* runs again in the same closure, retryCount as it was.
AttemptTimer(i) ==
    /\ i \in 1..Len(calls)
    /\ calls[i].timer = "attempt"
    /\ LET p == calls[i]
           out == AttemptOutcome(p.retryCount, p.maxRetries, domState)
       IN  /\ calls' = [calls EXCEPT ![i] = Promise(out.state, p.retryCount, p.maxRetries,
                                                     out.timer, UpTo(p.attempts))]
           /\ adminInitialized' = (adminInitialized \/ out.done)
           /\ adminInitializationInProgress' =
                 IF out.free THEN FALSE ELSE adminInitializationInProgress
           /\ initRuns' = IF domState.modal THEN UpTo(initRuns) ELSE initRuns
    /\ Done("attemptInitialization", i, FALSE, "", NoOrder)
    /\ UNCHANGED <<pageVars, restVars, domState>>

\* The timer set by the catch block fires: initializeAdminComponents is
\* called with retryCount + 1 and its result resolves the waiting promise.
RecallTimer(i) ==
    /\ i \in 1..Len(calls)
    /\ calls[i].timer = "recall"
    /\ CallInit(i, calls[i].retryCount + 1, calls[i].maxRetries, calls[i].attempts)
    /\ Done("initializeAdminComponents", calls[i].maxRetries, FALSE, "", NoOrder)
    /\ UNCHANGED <<pageVars, restVars>>

\* The markup of the admin modal is put into the document.
InsertModal ==
    /\ phase = "ready"
    /\ ~domState.modal
    /\ domState' = [domState EXCEPT !.modal = TRUE]
    /\ Done("insert", 0, FALSE, "", NoOrder)
    /\ UNCHANGED <<pageVars, restVars, adminInitialized, adminInitializationInProgress,
                   calls, initRuns>>

\* loadMenuData: the value left in menuData.
LoadMenuData(md, st, emb) ==
    LET custom == st["menuDataCustom"]
        md1 == IF custom.t = "json" THEN custom.v ELSE md
    IN  IF md1.kind # "catalog"
        THEN CASE emb.t = "json" -> emb.v
               [] emb.t = "garbage" -> EmptyCatalog
               [] OTHER -> EmptyCatalog
        ELSE md1

\* The DOMContentLoaded listeners: the first one loads the menu, the cart and
\* the favorites; the second one is initializeApplication, which loads cart and
\* favorites again inside a try block, refreshes the cart display and calls
\* initializeAdminComponents().
Startup ==
    /\ phase = "fresh"
    /\ phase' = "ready"
    /\ LET savedCart == store["cart"]
           savedFavorites == store["favorites"]
           cartOK == savedCart.t # "garbage"
           favOK == savedFavorites.t # "garbage"
           cart1 == IF savedCart.t = "json" THEN savedCart.v ELSE cart
       IN  /\ menuData' = LoadMenuData(menuData, store, embedded)
           /\ cart' = cart1
           /\ favorites' = IF cartOK /\ savedFavorites.t = "json"
                           THEN savedFavorites.v ELSE favorites
           /\ cartCountText' = IF savedCart.t = "json" \/ (cartOK /\ favOK)
                               THEN SumQty(cart1) ELSE cartCountText
           /\ subtotalText' = IF cartOK /\ favOK THEN SumPrice(cart1) ELSE subtotalText
           /\ IF cartOK /\ favOK
              THEN CallInit(Len(calls) + 1, 0, 3, 0)
              ELSE UNCHANGED initVars
           /\ Done("DOMContentLoaded", 0, ~(cartOK /\ favOK), "", NoOrder)
    /\ hist' = HistReset(hist)
    /\ UNCHANGED <<persistVars, cartOpen, confirmShown, specialRequest, adminVars,
                   restVars, ordered>>

\* The user reloads the page: the script starts again on the served document.
Reload ==
    /\ phase = "ready"
    /\ phase' = "fresh"
    /\ menuData' = EmptyObject
    /\ cart' = <<>>
    /\ favorites' = <<>>
    /\ embedded' = served
    /\ cartCountText' = 0
    /\ subtotalText' = 0
    /\ cartOpen' = FALSE
    /\ confirmShown' = FALSE
    /\ specialRequest' = ""
    /\ admin' = AdminClosed
    /\ gate' = NoAttempts
    /\ adminInitialized' = FALSE
    /\ adminInitializationInProgress' = FALSE
    /\ calls' = <<>>
    /\ initRuns' = 0
    /\ eventListeners' = <<>>
    /\ attached' = {}
    /\ cleanups' = {}
    /\ carousel' = NoCarousel
    /\ search' = SearchClosed
    /\ hiddenCards' = {}
    /\ Done("script", 0, FALSE, "", NoOrder)
    /\ hist' = HistReset(hist)
    /\ UNCHANGED <<store, storeFull, served, domState, workerVars, other, ordered>>

\* ------------------------------------------------------------------ cart
\* Variant of UpdateCart: the display is refreshed, the cart is not saved.
UpdateCartUnsaved(newCart) ==
    /\ UNCHANGED store
    /\ subtotalText' = SumPrice(newCart)
    /\ cartCountText' = SumQty(newCart)

\* updateCart: saveCart, renderCartItems, updateCartCount.  saveCart has no
\* try block, so a setItem that throws skips the two refreshes.
UpdateCart(newCart) ==
    IF storeFull
    THEN UNCHANGED <<store, subtotalText, cartCountText>>
    ELSE /\ store' = [store EXCEPT !["cart"] = Stringify(newCart)]
         /\ subtotalText' = SumPrice(newCart)
         /\ cartCountText' = SumQty(newCart)

HasLine(lines, id) == FindIndex(lines, id) # 0

\* Variants of CartAfterAdd: one pushes a line on every call, one leaves an
\* existing line alone, one copies the catalog dish again over an existing line.
CartAfterAddPush(lines, dish) == Append(lines, [quantity |-> 1] @@ dish)

CartAfterAddOnce(lines, dish) ==
    IF FindIndex(lines, dish.id) # 0 THEN lines
    ELSE Append(lines, [quantity |-> 1] @@ dish)

CartAfterAddFresh(lines, dish) ==
    LET k == FindIndex(lines, dish.id)
    IN  IF k # 0
        THEN [lines EXCEPT ![k] = [quantity |-> lines[k].quantity + 1] @@ dish]
        ELSE Append(lines, [quantity |-> 1] @@ dish)

\* The cart addToCart leaves for a dish found in the catalog: the quantity of
\* its line goes up by one, or a copy of the dish is pushed with quantity 1.
CartAfterAdd(lines, dish) ==
    LET k == FindIndex(lines, dish.id)
    IN  IF k # 0
        THEN [lines EXCEPT ![k].quantity = @ + 1]
        ELSE Append(lines, [quantity |-> 1] @@ dish)

\* Variant of CartAfterRemove: the line goes whatever its quantity.
CartAfterRemoveLine(lines, index) == Splice(lines, index)

\* The cart removeFromCart leaves when findIndex returned index.
CartAfterRemove(lines, index) ==
    IF lines[index].quantity > 1
    THEN [lines EXCEPT ![index].quantity = @ - 1]
    ELSE Splice(lines, index)

\* addToCart, for the button whose data-id is id.
AddToCart(id) ==
    /\ phase = "ready"
    /\ IF menuData.kind # "catalog"
       THEN \* menuData.dishes.find is a TypeError
            /\ Done("addToCart", id, TRUE, "", NoOrder)
            /\ hist' = HistAdd(hist, id, FALSE, FALSE, FALSE)
            /\ UNCHANGED <<cart, store, subtotalText, cartCountText>>
       ELSE LET d == FindIndex(menuData.dishes, id)
                k == FindIndex(cart, id)
            IN  IF d = 0
                THEN /\ Done("addToCart", id, FALSE, "", NoOrder)
                     /\ hist' = HistAdd(hist, id, FALSE, FALSE, FALSE)
                     /\ UNCHANGED <<cart, store, subtotalText, cartCountText>>
                ELSE /\ IF k # 0 THEN cart[k].quantity < MaxQty ELSE Len(cart) < MaxLines
                     /\ LET newCart == CartAfterAdd(cart, menuData.dishes[d])
                        IN  /\ cart' = newCart
                            /\ UpdateCart(newCart)
                     /\ Done("addToCart", id, storeFull, "", NoOrder)
                     /\ hist' = HistAdd(hist, id, TRUE, k # 0, cart = <<>>)
    /\ UNCHANGED <<phase, adminVars, sideVars, ordered, menuData, favorites, storeFull,
                   embedded, served,
                   cartOpen, confirmShown, specialRequest>>

\* removeFromCart, for the cart row button whose data-id is id.
RemoveFromCart(id) ==
    /\ phase = "ready"
    /\ LET index == FindIndex(cart, id)
       IN  IF index # 0
           THEN /\ LET newCart == CartAfterRemove(cart, index)
                   IN  /\ cart' = newCart
                       /\ UpdateCart(newCart)
                /\ Done("removeFromCart", id, storeFull, "", NoOrder)
           ELSE /\ Done("removeFromCart", id, FALSE, "", NoOrder)
                /\ UNCHANGED <<cart, store, subtotalText, cartCountText>>
    /\ hist' = HistRemove(hist, id, FindIndex(cart, id) # 0, cart = <<>>)
    /\ UNCHANGED <<phase, adminVars, sideVars, ordered, menuData, favorites, storeFull,
                   embedded, served,
                   cartOpen, confirmShown, specialRequest>>

\* toggleCart
ToggleCart ==
    /\ phase = "ready"
    /\ cartOpen' = ~cartOpen
    /\ subtotalText' = IF cartOpen THEN subtotalText ELSE SumPrice(cart)
    /\ Done("toggleCart", 0, FALSE, "", NoOrder)
    /\ UNCHANGED <<phase, adminVars, sideVars, ordered, dataVars, persistVars,
                   cartCountText, confirmShown,
                   specialRequest, hist>>

\* clearCartItems: asks for confirmation unless the cart is empty.
ClearCartItems ==
    /\ phase = "ready"
    /\ confirmShown' = IF cart = <<>> THEN confirmShown ELSE TRUE
    /\ Done("clearCartItems", 0, FALSE, "", NoOrder)
    /\ UNCHANGED <<phase, adminVars, sideVars, ordered, dataVars, persistVars,
                   cartCountText, subtotalText,
                   cartOpen, specialRequest, hist>>

\* cancelClearCart
CancelClearCart ==
    /\ phase = "ready"
    /\ confirmShown
    /\ confirmShown' = FALSE
    /\ Done("cancelClearCart", 0, FALSE, "", NoOrder)
    /\ UNCHANGED <<phase, adminVars, sideVars, ordered, dataVars, persistVars,
                   cartCountText, subtotalText,
                   cartOpen, specialRequest, hist>>

\* confirmClearCart: cart = []; updateCart(); toggleCart();
\* hideClearCartConfirmation().
ConfirmClearCart ==
    /\ phase = "ready"
    /\ confirmShown
    /\ cart' = <<>>
    /\ UpdateCart(<<>>)
    /\ IF storeFull
       THEN UNCHANGED <<cartOpen, confirmShown>>
       ELSE /\ cartOpen' = ~cartOpen
            /\ confirmShown' = FALSE
    /\ Done("confirmClearCart", 0, storeFull, "", NoOrder)
    /\ hist' = HistReset(hist)
    /\ UNCHANGED <<phase, adminVars, sideVars, ordered, menuData, favorites, storeFull,
                   embedded, served,
                   specialRequest>>

\* Variant of Trim: the text is kept as typed.
TrimNothing(s) == s

\* String.prototype.trim on the texts the model types into inputs.
Trim(s) ==
    CASE s = " Poulet " -> "Poulet"
      [] s = " sans piment " -> "sans piment"
      [] s = " Tarte " -> "Tarte"
      [] s = " 0101 " -> "0101"
      [] s = "   " -> ""
      [] OTHER -> s

Requests == {"", " sans piment "}

\* The user edits the special request field.
TypeRequest(text) ==
    /\ phase = "ready"
    /\ specialRequest # text
    /\ specialRequest' = text
    /\ Done("input", 0, FALSE, "", NoOrder)
    /\ UNCHANGED <<phase, adminVars, sideVars, ordered, dataVars, persistVars,
                   cartCountText, subtotalText,
                   cartOpen, confirmShown, hist>>

\* ------------------------------------------------------------ order stats
\* Variant of Bump: the counters start again from the key counted.
BumpFresh(f, key, qty) == (key :> qty)

\* stats[key] = (stats[key] || 0) + qty
Bump(f, key, qty) ==
    IF key \in DOMAIN f THEN [f EXCEPT ![key] = @ + qty] ELSE (key :> qty) @@ f

\* Variant of Tally: only the first line is counted, and only for its dish.
TallyFirstDish(stats, lines) ==
    IF lines = <<>> THEN stats
    ELSE [stats EXCEPT !.dishes = Bump(@, ToString(lines[1].id), lines[1].quantity)]

RECURSIVE TallyCategoryOnce(_, _)
\* Variant of Tally: a line counts once for its category, whatever its quantity.
TallyCategoryOnce(stats, lines) ==
    IF lines = <<>> THEN stats
    ELSE TallyCategoryOnce(
             [dishes |-> Bump(stats.dishes, ToString(lines[1].id), lines[1].quantity),
              categories |-> Bump(stats.categories, lines[1].category, 1)],
             Tail(lines))

RECURSIVE Tally(_, _)
\* The forEach of recordOrder over the cart lines.
Tally(stats, lines) ==
    IF lines = <<>> THEN stats
    ELSE LET it == lines[1]
             qty == IF it.quantity = 0 THEN 1 ELSE it.quantity
             cat == IF it.category = "" THEN "Autres" ELSE it.category
         IN  Tally([dishes |-> Bump(stats.dishes, ToString(it.id), qty),
                    categories |-> Bump(stats.categories, cat, qty)],
                   Tail(lines))

\* Variant of RecordOrder: nothing is recorded.
RecordNothing(st, full, lines) == st

\* recordOrder as called by the checkout, inside its try block: the store
\* it leaves.  A JSON.parse or setItem that throws is caught by the caller.
RecordOrder(st, full, lines) ==
    LET saved == st["orderStats"]
    IN  IF lines = <<>> \/ saved.t = "garbage" \/ full
        THEN st
        ELSE [st EXCEPT !["orderStats"] =
                Stringify(Tally(IF saved.t = "json" THEN saved.v ELSE NoStats, lines))]

RECURSIVE SumCounters(_)
SumCounters(f) ==
    IF DOMAIN f = {} THEN 0
    ELSE LET k == CHOOSE x \in DOMAIN f : TRUE
         IN  f[k] + SumCounters([x \in DOMAIN f \ {k} |-> f[x]])

\* proceedToCheckout; maxStat caps the quantities the order stats count.
ProceedToCheckout(maxStat) ==
    /\ phase = "ready"
    /\ IF cart = <<>>
       THEN /\ Done("proceedToCheckout", 0, FALSE, "", NoOrder)
            /\ UNCHANGED <<cart, store, subtotalText, cartCountText, cartOpen,
                           specialRequest>>
       ELSE /\ SumCounters(store["orderStats"].v.dishes) + SumQty(cart) <= maxStat
            /\ Done("proceedToCheckout", 0, storeFull, "",
                    [items |-> [i \in 1..Len(cart) |->
                                  [quantity |-> cart[i].quantity, name |-> cart[i].name]],
                     request |-> Trim(specialRequest),
                     subtotal |-> SumPrice(cart)])
            /\ cart' = <<>>
            /\ IF storeFull
               THEN UNCHANGED <<store, subtotalText, cartCountText, cartOpen,
                               specialRequest>>
               ELSE /\ store' = [RecordOrder(store, storeFull, cart)
                                    EXCEPT !["cart"] = Stringify(<<>>)]
                    /\ subtotalText' = 0
                    /\ cartCountText' = 0
                    /\ cartOpen' = ~cartOpen
                    /\ specialRequest' = ""
    /\ hist' = HistReset(hist)
    /\ ordered' = IF ordered = -1 THEN ordered ELSE ordered + SumQty(cart)
    /\ UNCHANGED <<phase, adminVars, sideVars, menuData, favorites, storeFull, embedded,
                   served, confirmShown>>

\* ---------------------------------------------------- another page instance
\* A second tab of the same origin checks out a cart of its own.  Its
\* recordOrder runs in its own event loop: between its getItem and its
\* setItem of orderStats nothing holds the store, so a handler of this page
\* may run in between.  maxStat caps the quantities counted.
OtherCarts ==
    {<<[id |-> 1, category |-> "Plats", quantity |-> 1]>>,
     <<[id |-> 2, category |-> "Desserts", quantity |-> 2]>>}

\* The other instance's recordOrder parses the orderStats text.
OtherReads(lines, maxStat) ==
    /\ other.pc = "idle"
    /\ store["orderStats"].t # "garbage"
    /\ SumCounters(store["orderStats"].v.dishes) + SumQty(lines) <= maxStat
    /\ other' = [pc |-> "read", lines |-> lines,
                 stats |-> IF store["orderStats"].t = "json"
                           THEN store["orderStats"].v ELSE NoStats]
    /\ UNCHANGED <<phase, dataVars, persistVars, uiVars, adminVars, outVars, histVars,
                   initVars, listenerVars, carouselVars, workerVars, searchVars, ordered>>

\* The other instance's recordOrder writes the counters it has computed, and
\* its updateCart saves its emptied cart under the shared cart key.
OtherWrites ==
    /\ other.pc = "read"
    /\ ~storeFull
    /\ store' = [store EXCEPT !["orderStats"] = Stringify(Tally(other.stats, other.lines)),
                              !["cart"] = Stringify(<<>>)]
    /\ other' = OtherIdle
    /\ ordered' = IF ordered = -1 THEN ordered ELSE ordered + SumQty(other.lines)
    /\ UNCHANGED <<phase, dataVars, storeFull, embedded, served, uiVars, adminVars, outVars,
                   histVars, initVars, listenerVars, carouselVars, workerVars, searchVars>>

\* -------------------------------------------------------------- favorites
\* Variant of SaveFavorites: the list is written under the key of the cart.
SaveFavoritesAsCart(favs) ==
    IF storeFull THEN UNCHANGED store
    ELSE store' = [store EXCEPT !["cart"] = Stringify(favs)]

\* Variant of FavoritesAfterToggle: the id is pushed on every call.
FavoritesAfterTogglePush(favs, id) == Append(favs, id)

\* The favorites toggleFavorite leaves: push, or splice(index, 1).
FavoritesAfterToggle(favs, id) ==
    LET index == IndexOf(favs, id)
    IN  IF index = 0 THEN Append(favs, id) ELSE Splice(favs, index)

\* saveFavorites
SaveFavorites(favs) ==
    IF storeFull THEN UNCHANGED store
    ELSE store' = [store EXCEPT !["favorites"] = Stringify(favs)]

\* toggleFavorite, for the heart button whose data-id is id.
ToggleFavorite(id) ==
    /\ phase = "ready"
    /\ LET newFavorites == FavoritesAfterToggle(favorites, id)
       IN  /\ favorites' = newFavorites
           /\ SaveFavorites(newFavorites)
    /\ Done("toggleFavorite", id, storeFull, "", NoOrder)
    /\ UNCHANGED <<phase, adminVars, sideVars, ordered, menuData, cart, storeFull, embedded,
                   served, uiVars, hist>>

\* ------------------------------------------------------------------ admin
\* Texts that parseFloat reads as a number.
Numerals == {-5, 0, 1, 2, 3, 4, 5, 25, 300, 1000, 2500}

\* toNumber: parseFloat, with NaN replaced by 0.
ToNumber(s) ==
    IF \E n \in Numerals : ToString(n) = s
    THEN CHOOSE n \in Numerals : ToString(n) = s
    ELSE 0

\* Variant of MaxDishId: the smallest id.
MaxDishIdMin(all) ==
    IF all = <<>> THEN 0
    ELSE LET i == CHOOSE k \in 1..Len(all) : \A j \in 1..Len(all) : all[k].id <= all[j].id
         IN  all[i].id

RECURSIVE MaxDishId(_)
\* all.reduce((m, d) => Math.max(m, d.id || 0), 0)
MaxDishId(all) ==
    IF all = <<>> THEN 0
    ELSE LET m == MaxDishId(Tail(all))
         IN  IF all[1].id > m THEN all[1].id ELSE m

\* Variants of NextDishId: one counts the dishes, one leaves the batch out.
NextDishIdCount(md, extra) == Len(md.dishes \o extra) + 1

NextDishIdCatalogOnly(md, extra) == MaxDishId(md.dishes) + 1

\* nextDishId(extra), for a menuData that is not null.
NextDishId(md, extra) == MaxDishId(md.dishes \o extra) + 1

\* saveMenuData: the store and the script tag it leaves.  A setItem that
\* throws is caught and skips the rewrite of the script tag.
SaveMenuData(md) ==
    IF storeFull
    THEN UNCHANGED <<store, embedded>>
    ELSE /\ store' = [store EXCEPT !["menuDataCustom"] = Stringify(md)]
         /\ embedded' = IF embedded.t = "absent" THEN embedded ELSE Stringify(md)

Form(i, c, n, ing, cal, prot, p, img) ==
    [id |-> i, category |-> c, name |-> n, ingredients |-> ing, calories |-> cal,
     proteins |-> prot, price |-> p, image |-> img]

\* handleSaveDish, the form elements being present.
HandleSaveDish(form, confirmed) ==
    /\ phase = "ready"
    /\ LET id == ToNumber(form.id)
           category == Trim(form.category)
           name == Trim(form.name)
           ingredients == Trim(form.ingredients)
           calories == ToNumber(form.calories)
           proteins == ToNumber(form.proteins)
           price == ToNumber(form.price)
           image == Trim(form.image)
           dishes0 == IF menuData.kind = "catalog" THEN menuData.dishes ELSE <<>>
           cats0 == IF menuData.kind = "catalog" THEN menuData.categories ELSE <<>>
           cats1 == IF \E i \in 1..Len(cats0) : cats0[i].name = category
                    THEN cats0 ELSE Append(cats0, [name |-> category])
           idx == FindIndex(dishes0, id)
           dishes1 ==
               IF id # 0
               THEN IF idx # 0
                    THEN [dishes0 EXCEPT ![idx] =
                            [category |-> category, name |-> name,
                             ingredients |-> ingredients, calories |-> calories,
                             proteins |-> proteins, price |-> price,
                             image |-> image] @@ dishes0[idx]]
                    ELSE dishes0
               ELSE Append(dishes0,
                        Dish(NextDishId(Catalog(cats1, dishes0), dishes0), category, name,
                             ingredients, calories, proteins, price, image, FALSE))
           md1 == Catalog(cats1, dishes1)
       IN  IF ~confirmed
           THEN /\ Done("handleSaveDish", ToNumber(form.id), FALSE, "", NoOrder)
                /\ UNCHANGED <<menuData, store, embedded>>
           ELSE IF name = "" \/ category = "" \/ price = 0
           THEN /\ Done("handleSaveDish", ToNumber(form.id), FALSE, "requis", NoOrder)
                /\ UNCHANGED <<menuData, store, embedded>>
           ELSE /\ Len(dishes1) <= MaxDishes
                /\ MaxDishId(dishes1) <= MaxId
                /\ menuData' = md1
                /\ SaveMenuData(md1)
                /\ Done("handleSaveDish", ToNumber(form.id), FALSE, "enregistre", NoOrder)
    /\ UNCHANGED <<phase, adminVars, sideVars, ordered, cart, favorites, storeFull, served,
                   uiVars, hist>>

\* The delete button of the admin row rendered for dish id.
DeleteDish(id, confirmed) ==
    /\ phase = "ready"
    /\ IF ~confirmed
       THEN /\ Done("deleteDish", id, FALSE, "", NoOrder)
            /\ UNCHANGED <<menuData, store, embedded>>
       ELSE IF menuData.kind # "catalog"
       THEN \* menuData.dishes.findIndex is a TypeError
            /\ Done("deleteDish", id, TRUE, "", NoOrder)
            /\ UNCHANGED <<menuData, store, embedded>>
       ELSE LET idx == FindIndex(menuData.dishes, id)
            IN  IF idx # 0
                THEN LET md1 == [menuData EXCEPT !.dishes = Splice(@, idx)]
                     IN  /\ menuData' = md1
                         /\ SaveMenuData(md1)
                         /\ Done("deleteDish", id, FALSE, "", NoOrder)
                ELSE /\ Done("deleteDish", id, FALSE, "", NoOrder)
                     /\ UNCHANGED <<menuData, store, embedded>>
    /\ UNCHANGED <<phase, adminVars, sideVars, ordered, cart, favorites, storeFull, served,
                   uiVars, hist>>

\* resetMenuData
ResetMenuData(confirmed) ==
    /\ phase = "ready"
    /\ IF ~confirmed
       THEN UNCHANGED <<menuData, store>>
       ELSE LET st1 == [store EXCEPT !["menuDataCustom"] = Absent(NullValue)]
            IN  /\ store' = st1
                /\ menuData' = LoadMenuData(menuData, st1, embedded)
    /\ Done("resetMenuData", 0, FALSE, "", NoOrder)
    /\ UNCHANGED <<phase, adminVars, sideVars, ordered, cart, favorites, storeFull,
                   embedded, served, uiVars, hist>>

\* ----------------------------------------------------------------- import
\* (h||'').toString().trim().toLowerCase() on the header cells of the sheets.
HeaderKey(h) ==
    CASE h = "Categorie" -> "categorie"
      [] h = "Nom" -> "nom"
      [] h = " NOM " -> "nom"
      [] h = "Prix" -> "prix"
      [] h = "PRIX" -> "prix"
      [] h = "Calories" -> "calories"
      [] OTHER -> h

\* Variant of HeaderIndex: a label that is not found answers the first column.
HeaderIndexOrFirst(header, lbl) ==
    LET i == IndexOf([j \in 1..Len(header) |-> HeaderKey(header[j])], lbl)
    IN  IF i = 0 THEN 1 ELSE i

\* header.indexOf(lbl); 0 stands for -1.
HeaderIndex(header, lbl) == IndexOf([i \in 1..Len(header) |-> HeaderKey(header[i])], lbl)

\* Variant of Cell: a missing or empty cell reads as a question mark.
CellFilled(r, idx) == IF idx >= 1 /\ idx <= Len(r) /\ r[idx] # "" THEN r[idx] ELSE "?"

\* r[idx] || '': a missing column or a short row reads as ''.
Cell(r, idx) == IF idx >= 1 /\ idx <= Len(r) THEN r[idx] ELSE ""

RECURSIVE ImportRows(_, _, _, _, _)
\* The loop of handleExcelImport over rows[1..]: the dishes it collects.
ImportRows(md, header, rows, i, newDishes) ==
    IF i > Len(rows) THEN newDishes
    ELSE LET r == rows[i]
             c == Trim(Cell(r, HeaderIndex(header, "categorie")))
             n == Trim(Cell(r, HeaderIndex(header, "nom")))
             idxIng == IF HeaderIndex(header, "ingrédients") # 0
                       THEN HeaderIndex(header, "ingrédients")
                       ELSE HeaderIndex(header, "ingredients")
             idxProt == IF HeaderIndex(header, "protéines (g)") # 0
                        THEN HeaderIndex(header, "protéines (g)")
                        ELSE HeaderIndex(header, "proteines (g)")
         IN  IF c = "" \/ n = ""
             THEN ImportRows(md, header, rows, i + 1, newDishes)
             ELSE ImportRows(md, header, rows, i + 1,
                    Append(newDishes,
                        Dish(NextDishId(md, newDishes), c, n,
                             Cell(r, idxIng),
                             ToNumber(Cell(r, HeaderIndex(header, "calories"))),
                             ToNumber(Cell(r, idxProt)),
                             ToNumber(Cell(r, HeaderIndex(header, "prix"))),
                             Cell(r, HeaderIndex(header, "image")),
                             FALSE)))

\* Variant of DistinctCats: one entry per dish.
DistinctCatsAll(ds, seen) == [i \in 1..Len(ds) |-> [name |-> ds[i].category]]

RECURSIVE DistinctCats(_, _)
\* Array.from(cats).map(name => ({ name })): first occurrences, in row order.
DistinctCats(ds, seen) ==
    IF ds = <<>> THEN <<>>
    ELSE IF ds[1].category \in seen
         THEN DistinctCats(Tail(ds), seen)
         ELSE <<[name |-> ds[1].category]>>
              \o DistinctCats(Tail(ds), seen \cup {ds[1].category})

\* reader.onload of handleExcelImport, rows being the first sheet; maxId caps
\* the ids the import allocates.
HandleExcelImport(rows, maxId) ==
    /\ phase = "ready"
    /\ IF rows = <<>>
       THEN /\ Done("handleExcelImport", 0, FALSE, "", NoOrder)
            /\ UNCHANGED <<menuData, store, embedded>>
       ELSE LET header == rows[1]
            IN  IF \/ HeaderIndex(header, "categorie") = 0
                   \/ HeaderIndex(header, "nom") = 0
                   \/ HeaderIndex(header, "prix") = 0
                THEN /\ Done("handleExcelImport", 0, FALSE, "colonnes", NoOrder)
                     /\ UNCHANGED <<menuData, store, embedded>>
                ELSE IF menuData.kind = "null" /\ Len(rows) > 1
                THEN \* nextDishId reads menuData.dishes: TypeError, caught
                     /\ Done("handleExcelImport", 0, FALSE, "echec", NoOrder)
                     /\ UNCHANGED <<menuData, store, embedded>>
                ELSE LET newDishes == ImportRows(menuData, header, rows, 2, <<>>)
                         md1 == Catalog(DistinctCats(newDishes, {}), newDishes)
                     IN  /\ Len(newDishes) <= MaxDishes
                         /\ MaxDishId(newDishes) <= maxId
                         /\ menuData' = md1
                         /\ SaveMenuData(md1)
                         /\ Done("handleExcelImport", 0, FALSE, "", NoOrder)
    /\ UNCHANGED <<phase, adminVars, sideVars, ordered, cart, favorites, storeFull, served,
                   uiVars, hist>>

\* ------------------------------------------------------------- admin gate
ADMIN_PASSCODE == "0101"

\* Texts typed into the #adminCode field.
AdminCodes == {"", "0101", " 0101 ", "1010"}

\* showAdminModal: the modal opens on its lock screen, the content hidden.
ShowAdminModal ==
    /\ phase = "ready"
    /\ admin' = [admin EXCEPT !.modal = TRUE, !.content = FALSE, !.lock = TRUE]
    /\ gate' = NoAttempts
    /\ Done("showAdminModal", 0, FALSE, "", NoOrder)
    /\ UNCHANGED <<phase, dataVars, persistVars, uiVars, hist, sideVars, ordered>>

\* hideAdminModal: the modal closes; what it displays inside is not touched.
HideAdminModal ==
    /\ phase = "ready"
    /\ admin.modal
    /\ admin' = [admin EXCEPT !.modal = FALSE]
    /\ Done("hideAdminModal", 0, FALSE, "", NoOrder)
    /\ UNCHANGED <<phase, dataVars, persistVars, uiVars, gate, hist, sideVars, ordered>>

\* The comparison of unlockAdmin: the trimmed text against the passcode.
Unlocks(code) == Trim(code) = ADMIN_PASSCODE

\* unlockAdmin with code typed in the field.  After the content is shown
\* updateStatsUI parses the orderStats text outside any try block.
UnlockAdmin(code) ==
    /\ phase = "ready"
    /\ admin.modal
    /\ IF Unlocks(code)
       THEN /\ admin' = [admin EXCEPT !.error = FALSE, !.lock = FALSE, !.content = TRUE]
            /\ gate' = [gate EXCEPT !.exact = @ \/ code = ADMIN_PASSCODE]
            /\ Done("unlockAdmin", 0, store["orderStats"].t = "garbage", "", NoOrder)
       ELSE /\ gate.failed < MaxAttempts
            /\ admin' = [admin EXCEPT !.error = TRUE]
            /\ gate' = [gate EXCEPT !.failed = @ + 1]
            /\ Done("unlockAdmin", 0, FALSE, "", NoOrder)
    /\ UNCHANGED <<phase, dataVars, persistVars, uiVars, hist, sideVars, ordered>>

\* ------------------------------------------------------- event listeners
\* Options objects, named by their JSON.stringify text, and the capture flag
\* addEventListener and removeEventListener read from them.
ListenerOptions == {"{}", "{\"capture\":true}", "{\"passive\":true}"}

Capture(options) == options = "{\"capture\":true}"

\* A listener in an element's DOM listener list: the list holds one listener
\* per type, callback and capture flag.
DomListener(element, event, handler, options) ==
    [element |-> element, event |-> event, handler |-> handler, capture |-> Capture(options)]

\* handlers.findIndex(h => h.handler === handler &&
\*                        JSON.stringify(h.options) === JSON.stringify(options))
FindListener(handlers, handler, options) ==
    LET hits == {i \in 1..Len(handlers) :
                    handlers[i].handler = handler /\ handlers[i].options = options}
    IN  IF hits = {} THEN -1
        ELSE (CHOOSE i \in hits : \A j \in hits : i <= j) - 1

\* handlers.splice(index, 1)
SpliceOne(handlers, index) ==
    [i \in 1..(Len(handlers) - 1) |->
        IF i <= index THEN handlers[i] ELSE handlers[i + 1]]

MapSet(map, key, value) ==
    [k \in DOMAIN map \cup {key} |-> IF k = key THEN value ELSE map[k]]

MapDelete(map, key) == [k \in DOMAIN map \ {key} |-> map[k]]

\* removeMatchingListener on the registry and the DOM listeners w.
removeMatchingListener(w, element, event, handler, options) ==
    LET key == <<element, event>>
    IN  IF key \notin DOMAIN w.eventListeners THEN w
        ELSE LET handlers == w.eventListeners[key]
                 index == FindListener(handlers, handler, options)
             IN  IF index = -1 THEN w
                 ELSE LET found == handlers[index + 1]
                          rest == SpliceOne(handlers, index)
                      IN  [eventListeners |->
                              IF rest = <<>> THEN MapDelete(w.eventListeners, key)
                              ELSE MapSet(w.eventListeners, key, rest),
                           attached |->
                              w.attached \ {DomListener(element, event, found.handler, found.options)}]

\* One round of the forEach of manageEventListener.  `handlers` is the array
\* fetched before removeMatchingListener runs; when the removal empties the
\* array it also deletes it from the map, and the push that follows goes to
\* an array the registry no longer holds.
ManageOne(w, element, event, handler, options) ==
    LET key == <<element, event>>
        made == IF key \in DOMAIN w.eventListeners THEN w.eventListeners
                ELSE MapSet(w.eventListeners, key, <<>>)
        removed == removeMatchingListener(
                       [eventListeners |-> made, attached |-> w.attached],
                       element, event, handler, options)
        handlerObj == [handler |-> handler, options |-> options]
    IN  [eventListeners |->
            IF key \in DOMAIN removed.eventListeners
            THEN MapSet(removed.eventListeners, key,
                        Append(removed.eventListeners[key], handlerObj))
            ELSE removed.eventListeners,
         attached |->
            removed.attached \cup {DomListener(element, event, handler, options)}]

RECURSIVE ManageAll(_, _, _, _, _)
ManageAll(w, element, events, handler, options) ==
    IF events = <<>> THEN w
    ELSE ManageAll(ManageOne(w, element, Head(events), handler, options),
                   element, Tail(events), handler, options)

RECURSIVE CleanupAll(_, _, _, _, _)
CleanupAll(w, element, events, handler, options) ==
    IF events = <<>> THEN w
    ELSE CleanupAll(removeMatchingListener(w, element, Head(events), handler, options),
                    element, Tail(events), handler, options)

\* The calls of manageEventListener followed here.
EventLists == {<<"click">>, <<"click", "keydown">>}
Handlers == {"toggleCart", "clearCartItems"}
Registrations ==
    [element : {"cartIcon"}, events : EventLists, handler : Handlers,
     options : ListenerOptions]

ManageEventListener(c) ==
    LET w == ManageAll([eventListeners |-> eventListeners, attached |-> attached],
                       c.element, c.events, c.handler, c.options)
    IN  /\ Cardinality(cleanups \cup {c}) <= MaxCleanups
        /\ \A k \in DOMAIN w.eventListeners : Len(w.eventListeners[k]) <= MaxEntries
        /\ eventListeners' = w.eventListeners
        /\ attached' = w.attached
        /\ cleanups' = cleanups \cup {c}
        /\ UNCHANGED <<pageVars, outVars, last, initVars, carouselVars, workerVars,
                       searchVars, other>>

\* The function returned by manageEventListener is called.
Cleanup(c) ==
    LET w == CleanupAll([eventListeners |-> eventListeners, attached |-> attached],
                        c.element, c.events, c.handler, c.options)
    IN  /\ c \in cleanups
        /\ eventListeners' = w.eventListeners
        /\ attached' = w.attached
        /\ UNCHANGED <<cleanups, pageVars, outVars, last, initVars, carouselVars,
                       workerVars, searchVars, other>>

\* ---------------------------------------------------------------- carousel
\* init: createSlides makes one slide per category carrying an image (images
\* of them do), goToSlide(0) returns at once, startAutoSlide sets the interval.
InitCarousel(images) ==
    /\ phase = "ready"
    /\ ~carousel.built
    /\ images \in 0..Len(menuData.categories)
    /\ carousel' = [built |-> TRUE, slides |-> images, currentIndex |-> 0,
                    isAnimating |-> FALSE, transition |-> FALSE, autoSlide |-> TRUE,
                    hidden |-> carousel.hidden]
    /\ Done("initCarousel", images, FALSE, "", NoOrder)
    /\ UNCHANGED <<pageVars, initVars, listenerVars, workerVars, searchVars, other>>

\* goToSlide on the carousel c: the carousel it leaves and whether a
\* TypeError left it.  this.slides[i] is undefined outside 0..slides-1, and
\* the first `.style` on an undefined slide throws, after isAnimating and
\* currentIndex were assigned and before the timer is set.
goToSlide(c, index) ==
    IF index = c.currentIndex \/ c.isAnimating
    THEN [carousel |-> c, exception |-> FALSE]
    ELSE LET slideCount == c.slides
             target == IF index >= slideCount THEN 0
                       ELSE IF index < 0 THEN slideCount - 1
                       ELSE index
             defined == /\ c.currentIndex \in 0..(slideCount - 1)
                        /\ target \in 0..(slideCount - 1)
         IN  [carousel |-> [c EXCEPT !.isAnimating = TRUE,
                                     !.currentIndex = target,
                                     !.transition = IF defined THEN TRUE ELSE @],
              exception |-> ~defined]

\* A handler of the carousel that calls goToSlide(index).
Navigate(op, index) ==
    LET r == goToSlide(carousel, index)
    IN  /\ carousel.built
        /\ carousel' = r.carousel
        /\ Done(op, index, r.exception, "", NoOrder)
        /\ UNCHANGED <<pageVars, initVars, listenerVars, workerVars, searchVars, other>>

\* next(): the next button, ArrowRight, a swipe to the left.
CarouselNext == Navigate("next", carousel.currentIndex + 1)

\* prev(): the previous button, ArrowLeft, a swipe to the right.
CarouselPrev == Navigate("prev", carousel.currentIndex - 1)

\* A pagination dot (one per category with an image, numbered by category),
\* Home (0) or End (slides.length - 1).
CarouselGoTo(index) ==
    /\ index \in 0..(Len(menuData.categories) - 1) \/ index = carousel.slides - 1
    /\ Navigate("goToSlide", index)

\* The setInterval callback: next() unless the document is hidden.
AutoSlideTick ==
    LET r == IF carousel.hidden THEN [carousel |-> carousel, exception |-> FALSE]
             ELSE goToSlide(carousel, carousel.currentIndex + 1)
    IN  /\ carousel.built
        /\ carousel.autoSlide
        /\ carousel' = r.carousel
        /\ Done("autoSlide", 0, r.exception, "", NoOrder)
        /\ UNCHANGED <<pageVars, initVars, listenerVars, workerVars, searchVars, other>>

\* The setTimeout callback of goToSlide.
TransitionTimer ==
    /\ carousel.transition
    /\ carousel' = [carousel EXCEPT !.isAnimating = FALSE, !.transition = FALSE]
    /\ Done("transitionEnd", 0, FALSE, "", NoOrder)
    /\ UNCHANGED <<pageVars, initVars, listenerVars, workerVars, searchVars, other>>

\* visibilitychange: the tab is hidden (pauseAutoSlide) or shown again
\* (resumeAutoSlide).
VisibilityChange ==
    /\ carousel.built
    /\ carousel' = [carousel EXCEPT !.hidden = ~@, !.autoSlide = carousel.hidden]
    /\ Done("visibilitychange", 0, FALSE, "", NoOrder)
    /\ UNCHANGED <<pageVars, initVars, listenerVars, workerVars, searchVars, other>>

\* pauseAutoSlide: touchstart, mouseenter.
PauseAutoSlide ==
    /\ carousel.built
    /\ carousel' = [carousel EXCEPT !.autoSlide = FALSE]
    /\ Done("pauseAutoSlide", 0, FALSE, "", NoOrder)
    /\ UNCHANGED <<pageVars, initVars, listenerVars, workerVars, searchVars, other>>

\* resumeAutoSlide: touchend, mouseleave.
ResumeAutoSlide ==
    /\ carousel.built
    /\ carousel' = [carousel EXCEPT !.autoSlide = TRUE]
    /\ Done("resumeAutoSlide", 0, FALSE, "", NoOrder)
    /\ UNCHANGED <<pageVars, initVars, listenerVars, workerVars, searchVars, other>>

\* ---------------------------------------------------------- service worker
CACHE_VERSION == "v1"
CACHE_NAME == "cdf-cache-" \o CACHE_VERSION

CORE_ASSETS ==
    {"./", "/index.html", "/assets/styles.css", "/assets/animations.css",
     "/assets/scripts.js", "/assets/images/logo.png"}

\* caches.open(name): the cache is created when it does not exist.
CacheOpen(cs, name) == IF name \in DOMAIN cs THEN cs ELSE MapSet(cs, name, {})

\* cache.put(req, response) on the cache opened under name.
CachePut(cs, name, url) ==
    LET opened == CacheOpen(cs, name)
    IN  MapSet(opened, name, opened[name] \cup {url})

\* The response handed to the page: who produced it, for which request.
Answer(req, from) ==
    [method |-> req.method, mode |-> req.mode, url |-> req.url, from |-> from]

\* Variant of NavigateFallback: no offline page, the failure is passed on.
NavigateFallbackOrError(cache, url) ==
    IF "/index.html" \in cache THEN "index"
    ELSE IF url \in cache THEN "cache"
    ELSE "error"

\* cachedIndex || cachedReq || new Response('Vous etes hors ligne.', 503)
NavigateFallback(cache, url) ==
    IF "/index.html" \in cache THEN "index"
    ELSE IF url \in cache THEN "cache"
    ELSE "offline"

\* Variant of CacheFirst: the network is asked every time.
NetworkFirst(cache, url) == "fetch"

\* const cached = await cache.match(req); if (cached) return cached;
CacheFirst(cache, url) == IF url \in cache THEN "cache" ELSE "fetch"

\* install: open the cache, try to add the core assets (all or none),
\* skipWaiting.
Install(added) ==
    LET opened == CacheOpen(caches, CACHE_NAME)
    IN  /\ worker = "none"
        /\ caches' = IF added
                      THEN MapSet(opened, CACHE_NAME, opened[CACHE_NAME] \cup CORE_ASSETS)
                      ELSE opened
        /\ worker' = "installed"
        /\ UNCHANGED <<requests, answered, pageVars, outVars, last, initVars,
                       listenerVars, carouselVars, searchVars, other>>

\* activate: every cache with another name is deleted, the clients claimed.
Activate ==
    /\ worker = "installed"
    /\ caches' = [key \in {k \in DOMAIN caches : k = CACHE_NAME} |-> caches[key]]
    /\ worker' = "activated"
    /\ UNCHANGED <<requests, answered, pageVars, outVars, last, initVars,
                   listenerVars, carouselVars, searchVars, other>>

\* The requests of the controlled page followed here.
FetchRequests ==
    {[method |-> "GET", mode |-> "navigate", url |-> "/commande", sameOrigin |-> TRUE],
     [method |-> "GET", mode |-> "navigate", url |-> "/index.html", sameOrigin |-> TRUE],
     [method |-> "GET", mode |-> "no-cors", url |-> "/assets/menu.json", sameOrigin |-> TRUE],
     [method |-> "GET", mode |-> "no-cors", url |-> "/assets/styles.css", sameOrigin |-> TRUE],
     [method |-> "GET", mode |-> "cors", url |-> "https://fonts.googleapis.com/css", sameOrigin |-> FALSE],
     [method |-> "POST", mode |-> "navigate", url |-> "/commande", sameOrigin |-> TRUE],
     [method |-> "POST", mode |-> "cors", url |-> "/commande", sameOrigin |-> TRUE]}

\* The fetch handler up to its first network fetch.  A request it does not
\* respond to is answered by the browser.
FetchEvent(req) ==
    /\ worker = "activated"
    /\ IF req.method # "GET"
       THEN /\ answered' = Answer(req, "browser")
            /\ UNCHANGED <<caches, requests>>
       ELSE IF req.mode = "navigate"
       THEN /\ Len(requests) < MaxPending
            /\ requests' = Append(requests, req)
            /\ UNCHANGED <<caches, answered>>
       ELSE IF req.sameOrigin
       THEN LET opened == CacheOpen(caches, CACHE_NAME)
            IN  /\ caches' = opened
                /\ IF CacheFirst(opened[CACHE_NAME], req.url) = "cache"
                   THEN /\ answered' = Answer(req, "cache")
                        /\ UNCHANGED requests
                   ELSE /\ Len(requests) < MaxPending
                        /\ requests' = Append(requests, req)
                        /\ UNCHANGED answered
       ELSE /\ answered' = Answer(req, "browser")
            /\ UNCHANGED <<caches, requests>>
    /\ UNCHANGED <<worker, pageVars, outVars, last, initVars, listenerVars,
                   carouselVars, searchVars, other>>

\* fetch(req) resolves: the response is put in the cache and returned.
NetworkOk(i) ==
    /\ i \in 1..Len(requests)
    /\ caches' = CachePut(caches, CACHE_NAME, requests[i].url)
    /\ answered' = Answer(requests[i], "network")
    /\ requests' = SpliceOne(requests, i - 1)
    /\ UNCHANGED <<worker, pageVars, outVars, last, initVars, listenerVars,
                   carouselVars, searchVars, other>>

\* fetch(req) rejects: a navigation falls back on the cache and the offline
\* page, a static asset on Response.error().
NetworkFail(i) ==
    /\ i \in 1..Len(requests)
    /\ LET req == requests[i]
           opened == CacheOpen(caches, CACHE_NAME)
       IN  IF req.mode = "navigate"
           THEN /\ caches' = opened
                /\ answered' = Answer(req, NavigateFallback(opened[CACHE_NAME], req.url))
           ELSE /\ caches' = caches
                /\ answered' = Answer(req, "error")
    /\ requests' = SpliceOne(requests, i - 1)
    /\ UNCHANGED <<worker, pageVars, outVars, last, initVars, listenerVars,
                   carouselVars, searchVars, other>>

\* ------------------------------------------------------------------ search
\* String.prototype.toLowerCase on the texts of the dish cards and of the
\* search input.
ToLowerCase(s) ==
    CASE s = "Poulet" -> "poulet"
      [] s = "Tarte" -> "tarte"
      [] s = "Ri" -> "ri"
      [] OTHER -> s

\* The characters of the lower-case texts.
Chars(s) ==
    CASE s = "poulet" -> <<"p", "o", "u", "l", "e", "t">>
      [] s = "tarte" -> <<"t", "a", "r", "t", "e">>
      [] s = "riz" -> <<"r", "i", "z">>
      [] s = "ri" -> <<"r", "i">>
      [] s = "zz" -> <<"z", "z">>
      [] OTHER -> <<>>

\* String.prototype.includes
Includes(text, term) ==
    LET t == Chars(text)
        w == Chars(term)
    IN  \E k \in 0..(Len(t) - Len(w)) : SubSeq(t, k + 1, k + Len(w)) = w

\* The dish cards of the page.
DishCards == ServedMenu.dishes

\* filterDishes: the cards left with display none.
filterDishes(searchTerm) ==
    IF searchTerm = "" THEN {}
    ELSE {i \in 1..Len(DishCards) :
             ~(\/ Includes(ToLowerCase(DishCards[i].name), searchTerm)
               \/ Includes(ToLowerCase(DishCards[i].ingredients), searchTerm))}

\* Variant of TimerTerm: the value the input had at the keystroke.
TimerTermCaptured(value, typed) == ToLowerCase(Trim(typed))

\* The term the debounce callback passes on, e.target.value.trim()
\* .toLowerCase(), read when the timer fires.
TimerTerm(value, typed) == ToLowerCase(Trim(value))

\* The overlay is closed: the input is emptied and filterDishes('') runs; a
\* pending timer is left alone.
CloseSearch(op) ==
    /\ search' = [search EXCEPT !.open = FALSE, !.value = "", !.ran = ""]
    /\ hiddenCards' = filterDishes("")
    /\ Done(op, 0, FALSE, "", NoOrder)
    /\ UNCHANGED <<pageVars, initVars, listenerVars, carouselVars, workerVars, other>>

\* Click on #searchToggle.
SearchToggleClick ==
    IF ~search.open
    THEN /\ search' = [search EXCEPT !.open = TRUE]
         /\ Done("searchToggle", 0, FALSE, "", NoOrder)
         /\ UNCHANGED <<hiddenCards, pageVars, initVars, listenerVars, carouselVars,
                        workerVars, other>>
    ELSE CloseSearch("searchToggle")

\* Click on .search-overlay-close.
SearchOverlayClose == CloseSearch("searchOverlayClose")

\* Escape, which acts while aria-hidden is 'false'.
SearchEscape ==
    /\ search.open
    /\ CloseSearch("Escape")

\* Click on #searchClear.
SearchClear ==
    /\ search' = [search EXCEPT !.value = "", !.ran = ""]
    /\ hiddenCards' = filterDishes("")
    /\ Done("searchClear", 0, FALSE, "", NoOrder)
    /\ UNCHANGED <<pageVars, initVars, listenerVars, carouselVars, workerVars, other>>

\* The values typed into #searchInput.
SearchTexts == {"Ri", "riz", " Tarte ", " Poulet ", "zz", "   "}

\* An input event: the input, which is inside the overlay, takes keystrokes
\* while the overlay is open.  The pending timer is cleared and a new one set.
SearchInput(text) ==
    /\ search.open
    /\ search' = [search EXCEPT !.value = text, !.typed = text, !.timers = 1]
    /\ Done("input", 0, FALSE, "", NoOrder)
    /\ UNCHANGED <<hiddenCards, pageVars, initVars, listenerVars, carouselVars,
                   workerVars, other>>

\* The debounce timer fires.
SearchTimeout ==
    LET searchTerm == TimerTerm(search.value, search.typed)
    IN  /\ search.timers > 0
        /\ search' = [search EXCEPT !.timers = @ - 1, !.ran = searchTerm]
        /\ hiddenCards' = filterDishes(searchTerm)
        /\ Done("searchTimeout", 0, FALSE, "", NoOrder)
        /\ UNCHANGED <<pageVars, initVars, listenerVars, carouselVars, workerVars, other>>

\* ---------------------------------------------------------- specifications
ButtonIds == 1..(MaxId + 1)
FavIds == 1..MaxFav

\* The customer fills and empties the cart on a fixed menu.
Next ==
    \/ Startup
    \/ Reload
    \/ \E id \in ButtonIds : AddToCart(id)
    \/ \E id \in ButtonIds : RemoveFromCart(id)
    \/ ToggleCart
    \/ ClearCartItems
    \/ CancelClearCart
    \/ ConfirmClearCart
    \/ ProceedToCheckout(MaxStat)

Spec == Init /\ [][Next]_vars

\* The same session with the heart buttons; runs of calls are not recorded.
InitFav == InitWith(Stringify(ServedMenu), EmptyStore, FALSE, HistOff, Script)

NextFav ==
    \/ Startup
    \/ Reload
    \/ \E id \in ButtonIds : AddToCart(id)
    \/ \E id \in ButtonIds : RemoveFromCart(id)
    \/ ClearCartItems
    \/ ConfirmClearCart
    \/ ProceedToCheckout(MaxStat)
    \/ \E id \in FavIds : ToggleFavorite(id)

SpecFav == InitFav /\ [][NextFav]_vars

\* The admin deletes dishes while the customer keeps clicking their buttons.
NextDelete ==
    \/ Startup
    \/ Reload
    \/ \E id \in ButtonIds : AddToCart(id)
    \/ \E id \in ButtonIds : RemoveFromCart(id)
    \/ \E id \in ButtonIds : DeleteDish(id, TRUE)

SpecDelete == InitFav /\ [][NextDelete]_vars

\* The dish form filled in for a new dish.
NewDishForm == Form("", "Desserts", " Tarte ", "", "abc", "", "1000", "")

\* The admin edits the menu while the cart is in use: a new dish and edits of
\* dish i are saved, sheets of one and of two usable rows are imported.
AdminForms ==
    {NewDishForm}
    \cup {Form(ToString(i), "Desserts", "Tarte", "", "", "", "1000", "") : i \in 1..MaxId}

AdminSheets ==
    { << <<"Categorie", "Nom", "Prix">>, <<"Desserts", " Tarte ", "1000">> >>,
      << <<" NOM ", "Categorie", "Calories", "PRIX">>,
         <<"Tarte", "Desserts", "abc", "1000">>,
         <<"", "Plats", "300", "2500">>,
         <<"Tarte", "Desserts", "", "1000">> >> }

InitAdmin == InitWith(Stringify(ServedSnapshot), EmptyStore, FALSE, HistOff, LastOff)

NextAdmin ==
    \/ Startup
    \/ \E id \in ButtonIds : AddToCart(id)
    \/ \E id \in ButtonIds : RemoveFromCart(id)
    \/ ClearCartItems
    \/ ConfirmClearCart
    \/ ProceedToCheckout(MaxAdminStat)
    \/ \E form \in AdminForms : HandleSaveDish(form, TRUE)
    \/ \E id \in ButtonIds : DeleteDish(id, TRUE)
    \/ \E rows \in AdminSheets : HandleExcelImport(rows, MaxId)
    \/ ResetMenuData(TRUE)

SpecAdmin == InitAdmin /\ [][NextAdmin]_vars

\* The admin alone: every button of the admin panel, with forms and sheets
\* that pass and that fail validation, confirmations accepted and declined.
CatalogForms ==
    AdminForms
    \cup {Form("", "Desserts", "   ", "", "", "", "1000", ""),
          Form("", "", "Tarte", "", "", "", "1000", ""),
          Form("1", "Desserts", "Tarte", "", "", "", "0", ""),
          Form("", "Desserts", "Tarte", "", "", "", "abc", ""),
          Form("1", "Desserts", "Tarte", "", "", "", "", ""),
          Form("", "Desserts", "Tarte", "", "-5", "", "-5", "")}

CatalogSheets ==
    AdminSheets
    \cup { <<>>,
           << <<"Categorie", "Nom", "Prix">> >>,
           << <<"Categorie", "Nom">>, <<"Desserts", "Tarte">> >>,
           << <<"Categorie", "Prix">>, <<"Desserts", "1000">> >>,
           << <<" NOM ", "PRIX">>, <<"Tarte", "1000">> >>,
           << <<"Categorie", "Nom", "Prix", "Calories">>,
              <<"Desserts", "Tarte", "0", "-5">> >>,
           << <<"Categorie", "Nom", "Prix">>,
              <<"Desserts">>,
              <<"   ", "Tarte", "1000">>,
              <<"Plats", " Poulet ", "2500">> >> }

InitCatalog == InitWith(Stringify(ServedSnapshot), EmptyStore, FALSE, HistOff, Script)

NextCatalog ==
    \/ Startup
    \/ Reload
    \/ \E form \in CatalogForms, confirmed \in BOOLEAN : HandleSaveDish(form, confirmed)
    \/ \E id \in ButtonIds, confirmed \in BOOLEAN : DeleteDish(id, confirmed)
    \/ \E rows \in CatalogSheets : HandleExcelImport(rows, MaxImportId)
    \/ \E confirmed \in BOOLEAN : ResetMenuData(confirmed)

SpecCatalog == InitCatalog /\ [][NextCatalog]_vars

\* The customer orders again and again: the checkouts are followed until the
\* order stats count MaxOrdered items.
NextStats ==
    \/ Startup
    \/ Reload
    \/ \E id \in ButtonIds : AddToCart(id)
    \/ \E id \in ButtonIds : RemoveFromCart(id)
    \/ \E text \in Requests : TypeRequest(text)
    \/ ProceedToCheckout(MaxOrdered)

InitStats == InitCounted(Stringify(ServedMenu))

SpecStats == InitStats /\ [][NextStats]_vars

\* The admin components are initialized on documents with and without the
\* modal, with an initAdmin and an initEventListeners that work or fail.
DomStates == [modal : BOOLEAN, initAdmin : BOOLEAN, listeners : BOOLEAN]

InitInit ==
    \E d \in DomStates :
        /\ InitPage(Stringify(ServedSnapshot), EmptyStore, FALSE, HistOff, Script)
        /\ InitAdminInit(d)
        /\ InitListeners
        /\ carousel = NoCarousel
        /\ InitWorker
        /\ InitSearch
        /\ other = OtherIdle
        /\ ordered = -1

NextInit ==
    \/ Startup
    \/ Reload
    \/ \E maxRetries \in 0..MaxRetries : InitializeAdminComponents(maxRetries)
    \/ \E i \in 1..MaxCalls : AttemptTimer(i)
    \/ \E i \in 1..MaxCalls : RecallTimer(i)
    \/ InsertModal

SpecInit == InitInit /\ [][NextInit]_vars

\* A timer that has been set fires.
SpecInitLive ==
    /\ SpecInit
    /\ WF_vars(\E i \in 1..MaxCalls : AttemptTimer(i))
    /\ WF_vars(\E i \in 1..MaxCalls : RecallTimer(i))

\* Listeners are registered and cleaned up in any order.
NextListeners ==
    \/ \E c \in Registrations : ManageEventListener(c)
    \/ \E c \in Registrations : Cleanup(c)

SpecListeners == InitFav /\ [][NextListeners]_vars

\* The carousel is built over the served categories and driven by its
\* buttons, keys, dots and timers.
NextCarousel ==
    \/ Startup
    \/ \E images \in 0..MaxDishes : InitCarousel(images)
    \/ CarouselNext
    \/ CarouselPrev
    \/ \E index \in -1..MaxDishes : CarouselGoTo(index)
    \/ AutoSlideTick
    \/ TransitionTimer
    \/ VisibilityChange
    \/ PauseAutoSlide
    \/ ResumeAutoSlide

SpecCarousel == InitFav /\ [][NextCarousel]_vars

\* The service worker is installed over no cache or over the cache of an
\* earlier version, activated, and serves the page's requests.
StaleCaches == {<<>>, [key \in {"cdf-cache-v0"} |-> {"/index.html", "/assets/styles.css"}]}

InitOrigin ==
    /\ InitPage(Stringify(ServedMenu), EmptyStore, FALSE, HistOff, Script)
    /\ InitAdminInit(DomReady)
    /\ InitListeners
    /\ carousel = NoCarousel
    /\ caches \in StaleCaches
    /\ worker = "none"
    /\ requests = <<>>
    /\ answered = NoAnswer
    /\ InitSearch
    /\ other = OtherIdle
    /\ ordered = -1

NextWorker ==
    \/ \E added \in BOOLEAN : Install(added)
    \/ Activate
    \/ \E req \in FetchRequests : FetchEvent(req)
    \/ \E i \in 1..MaxPending : NetworkOk(i)
    \/ \E i \in 1..MaxPending : NetworkFail(i)

SpecWorker == InitOrigin /\ [][NextWorker]_vars

\* The search overlay is opened, typed into and closed in any order, its
\* timer firing at any time.
NextSearch ==
    \/ SearchToggleClick
    \/ SearchOverlayClose
    \/ SearchEscape
    \/ SearchClear
    \/ \E text \in SearchTexts : SearchInput(text)
    \/ SearchTimeout

SpecSearch == InitFav /\ [][NextSearch]_vars

\* Two page instances order over the same store.
NextTabs ==
    \/ Startup
    \/ \E id \in 1..MaxId : AddToCart(id)
    \/ ProceedToCheckout(MaxOrdered)
    \/ \E lines \in OtherCarts : OtherReads(lines, MaxOrdered)
    \/ OtherWrites

SpecTabs == InitFav /\ [][NextTabs]_vars

\* A whole session on one page: the customer fills the cart, marks a
\* favorite and orders while the admin edits, imports and resets the menu.
SessionForms == {NewDishForm, Form("1", "Desserts", "Tarte", "", "", "", "1000", "")}

SessionSheets == { << <<"Categorie", "Nom", "Prix">>, <<"Desserts", " Tarte ", "1000">> >> }

InitSession == InitWith(Stringify(ServedSnapshot), EmptyStore, FALSE, HistOff, LastOff)

NextSession ==
    \/ Startup
    \/ AddToCart(1)
    \/ RemoveFromCart(1)
    \/ ClearCartItems
    \/ ConfirmClearCart
    \/ ProceedToCheckout(MaxStat)
    \/ ToggleFavorite(1)
    \/ \E form \in SessionForms : HandleSaveDish(form, TRUE)
    \/ \E id \in 1..MaxId : DeleteDish(id, TRUE)
    \/ \E rows \in SessionSheets : HandleExcelImport(rows, MaxId)
    \/ ResetMenuData(TRUE)

SpecSession == InitSession /\ [][NextSession]_vars

\* The page is opened over a store whose cart, favorites and orderStats
\* texts were left by an earlier visit or are not JSON, and the admin modal
\* is opened, closed and tried with right and wrong codes.
CartTexts ==
    {Absent(<<>>), Garbage(<<>>),
     Stringify(<<[quantity |-> 1] @@ ServedSnapshot.dishes[1]>>)}

FavoritesTexts == {Absent(<<>>), Garbage(<<>>), Stringify(<<1>>)}

StatsTexts ==
    {Absent(NoStats), Garbage(NoStats),
     Stringify([dishes |-> ("1" :> 1), categories |-> ("Plats" :> 1)])}

InitGate ==
    \E c \in CartTexts, f \in FavoritesTexts, o \in StatsTexts :
        InitWith(Stringify(ServedSnapshot),
                 [EmptyStore EXCEPT !["cart"] = c, !["favorites"] = f, !["orderStats"] = o],
                 FALSE, HistOff, Script)

NextGate ==
    \/ Startup
    \/ Reload
    \/ AddToCart(1)
    \/ ToggleFavorite(1)
    \/ ProceedToCheckout(MaxStat)
    \/ ShowAdminModal
    \/ HideAdminModal
    \/ \E code \in AdminCodes : UnlockAdmin(code)

SpecGate == InitGate /\ [][NextGate]_vars

\* The page is used over a store that takes no more data: setItem throws.
InitQuota == InitWith(Stringify(ServedSnapshot), EmptyStore, TRUE, HistOff, Script)

NextQuota ==
    \/ Startup
    \/ \E id \in ButtonIds : AddToCart(id)
    \/ \E id \in ButtonIds : RemoveFromCart(id)
    \/ ClearCartItems
    \/ ConfirmClearCart
    \/ \E text \in Requests : TypeRequest(text)
    \/ ProceedToCheckout(MaxAdminStat)
    \/ \E id \in FavIds : ToggleFavorite(id)
    \/ HandleSaveDish(NewDishForm, TRUE)

SpecQuota == InitQuota /\ [][NextQuota]_vars

\* The page is opened over every kind of menuDataCustom text and of served
\* snapshot text: missing, empty, not JSON, JSON of {} or of null, JSON of a
\* catalog.
MenuTexts ==
    {Absent(NullValue), EmptyText(NullValue), Garbage(NullValue),
     Stringify(EmptyObject), Stringify(NullValue), Stringify(ServedSnapshot)}

InitLoad ==
    \E custom \in MenuTexts, snapshot \in MenuTexts :
        InitWith(snapshot, [EmptyStore EXCEPT !["menuDataCustom"] = custom],
                 FALSE, HistOff, Script)

NextLoad ==
    \/ Startup
    \/ Reload
    \/ ResetMenuData(TRUE)
    \/ \E id \in ButtonIds : AddToCart(id)
    \/ \E id \in ButtonIds : DeleteDish(id, TRUE)

SpecLoad == InitLoad /\ [][NextLoad]_vars

\* ------------------------------------------------------------------ claims
\* Lines of a cart for dish id, and readings of a cart written without the
\* operators of the handlers.
LinesFor(lines, id) == {i \in 1..Len(lines) : lines[i].id = id}

CountOf(lines, id) ==
    IF LinesFor(lines, id) = {} THEN 0
    ELSE lines[CHOOSE i \in LinesFor(lines, id) : TRUE].quantity

Without(lines, k) == [i \in 1..(Len(lines) - 1) |-> IF i < k THEN lines[i] ELSE lines[i + 1]]

\* C1: in every state reached from an empty cart by cart adds, removes, clears
\* and checkouts interleaved with admin creates, updates, deletes, imports and
\* resets of the catalog, the cart has at most one line per dish id and every
\* line's quantity is an integer >= 1.
C1_OneLinePerDish ==
    /\ \A i, j \in 1..Len(cart) : cart[i].id = cart[j].id => i = j
    /\ \A i \in 1..Len(cart) : cart[i].quantity \in Int /\ cart[i].quantity >= 1

\* A cart of two lines, one of them added twice, over a catalog the admin has
\* rewritten.
C1_Witness ==
    /\ Len(cart) = 2
    /\ \E i \in 1..2 : cart[i].quantity = 2
    /\ store["menuDataCustom"].t = "json"
    /\ menuData # ServedSnapshot

\* C2: a run of n addToCart calls for one id, begun on a cart with no line for
\* the id and with the dish in the catalog at each call, leaves exactly one
\* line for the id, of quantity n.
C2_AddsCounted ==
    (hist.id > 0 /\ ~hist.lead /\ hist.removes = 0 /\ hist.adds >= 1)
        => /\ Cardinality(LinesFor(cart, hist.id)) = 1
           /\ CountOf(cart, hist.id) = hist.adds

\* Three calls for dish 1 in a row.
C2_Witness ==
    /\ hist.id = 1 /\ hist.adds = 3 /\ hist.removes = 0
    /\ last = [op |-> "addToCart", arg |-> 1]
    /\ CountOf(cart, 1) = 3

\* C3: removeFromCart(id) on a line of quantity q > 1 leaves the line in place
\* with quantity q - 1, on a line of quantity 1 removes the line, and without
\* a line for id leaves the cart unchanged.
C3_RemoveStep ==
    last'.op = "removeFromCart" =>
        LET id == last'.arg
        IN  IF LinesFor(cart, id) = {} THEN cart' = cart
            ELSE LET k == CHOOSE i \in LinesFor(cart, id) : TRUE
                 IN  IF cart[k].quantity > 1
                     THEN cart' = [cart EXCEPT ![k].quantity = cart[k].quantity - 1]
                     ELSE cart' = Without(cart, k)

\* C3: n adds then m <= n removes of a known dish, begun on an empty cart,
\* leave its line with quantity n - m, and no line when m = n; a remove then
\* an add on an empty cart leave exactly one line, of quantity 1; with dish 1
\* priced 2500, add, add, remove leave one line of quantity 1 and a total of
\* 2500.
C3_RunState ==
    /\ (hist.id > 0 /\ ~hist.lead /\ hist.empty /\ hist.adds >= 1)
          => /\ CountOf(cart, hist.id) = hist.adds - hist.removes
             /\ (hist.removes = hist.adds => cart = <<>>)
             /\ (hist.removes < hist.adds => Len(cart) = 1)
    /\ (hist.id > 0 /\ hist.lead /\ hist.empty /\ hist.adds = 1 /\ hist.removes = 0)
          => /\ Len(cart) = 1
             /\ cart[1].id = hist.id
             /\ cart[1].quantity = 1
    /\ (hist.id = 1 /\ ~hist.lead /\ hist.empty /\ hist.adds = 2 /\ hist.removes = 1)
          => /\ cart = <<[quantity |-> 1] @@ ServedMenu.dishes[1]>>
             /\ cart[1].price = 2500
             /\ subtotalText = 2500

C3_Remove == []C3_RunState /\ [][C3_RemoveStep]_vars

\* add(1), add(1), remove(1) on an empty cart.
C3_Witness ==
    /\ hist = [id |-> 1, adds |-> 2, removes |-> 1, lead |-> FALSE, empty |-> TRUE]
    /\ last = [op |-> "removeFromCart", arg |-> 1]
    /\ Len(cart) = 1
    /\ cart[1].quantity = 1
    /\ subtotalText = 2500

\* C4: addToCart(id) for an id that matches no dish of the current catalog,
\* a deleted dish for one, is a silent no-op: the cart in memory, the cart in
\* the store and the displayed count are unchanged.
C4_AbsentStep ==
    (/\ last'.op = "addToCart"
     /\ menuData.kind = "catalog"
     /\ \A i \in 1..Len(menuData.dishes) : menuData.dishes[i].id # last'.arg)
        => /\ cart' = cart
           /\ store'["cart"] = store["cart"]
           /\ cartCountText' = cartCountText
           /\ ~threw'

C4_AbsentAddNoOp == [][C4_AbsentStep]_vars

\* The button of dish 1 is clicked after the admin deleted the dish, the cart
\* still holding its line.
C4_Witness ==
    /\ last = [op |-> "addToCart", arg |-> 1]
    /\ menuData.kind = "catalog"
    /\ \A i \in 1..Len(menuData.dishes) : menuData.dishes[i].id # 1
    /\ CountOf(cart, 1) = 2
    /\ store["cart"] = Stringify(cart)

\* The fields of a cart line other than its quantity.
Content(line) == [f \in DOMAIN line \ {"quantity"} |-> line[f]]

AdminStep ==
    \/ \E form \in AdminForms : HandleSaveDish(form, TRUE)
    \/ \E id \in ButtonIds : DeleteDish(id, TRUE)
    \/ \E rows \in AdminSheets : HandleExcelImport(rows, MaxId)
    \/ ResetMenuData(TRUE)

\* C5: a cart line is a snapshot of the dish at the time of the add that
\* created it: no admin update, delete, import or reset of the catalog changes
\* the cart, and a line that stays in the cart, a later add of its id included,
\* keeps every field but its quantity.
C5_SnapshotStep ==
    /\ \A i \in 1..Len(cart), j \in 1..Len(cart') :
          cart[i].id = cart'[j].id => Content(cart'[j]) = Content(cart[i])
    /\ AdminStep => cart' = cart /\ store'["cart"] = store["cart"]
    /\ Len(cart') > Len(cart) =>
          \E d \in 1..Len(menuData.dishes) :
              /\ Content(cart'[Len(cart')]) = menuData.dishes[d]
              /\ cart'[Len(cart')].quantity = 1

C5_LineIsSnapshot == [][C5_SnapshotStep]_vars

\* Dish 1 was added as Poulet at 2500, then edited to Tarte at 1000, then
\* added again: the line counts 2 and still reads Poulet at 2500.
C5_Witness ==
    /\ menuData.kind = "catalog"
    /\ \E d \in 1..Len(menuData.dishes) :
          /\ menuData.dishes[d].id = 1
          /\ menuData.dishes[d].name = "Tarte"
          /\ menuData.dishes[d].price = 1000
    /\ \E i \in 1..Len(cart) :
          /\ cart[i].id = 1
          /\ cart[i].name = "Poulet"
          /\ cart[i].price = 2500
          /\ cart[i].quantity = 2

RECURSIVE SumOver(_, _)
SumOver(f, S) ==
    IF S = {} THEN 0
    ELSE LET i == CHOOSE x \in S : TRUE
         IN  f[i] + SumOver(f, S \ {i})

\* total() and count() recomputed from the lines.
Total(lines) == SumOver([i \in 1..Len(lines) |-> lines[i].price * lines[i].quantity],
                        1..Len(lines))
Count(lines) == SumOver([i \in 1..Len(lines) |-> lines[i].quantity], 1..Len(lines))

\* C6: once the page is ready the displayed total is the sum of price *
\* quantity over the lines and the displayed count is the sum of the
\* quantities; the stored cart, which a reload reads back, has the same total
\* and count.
C6_TotalsState ==
    phase = "ready" =>
        /\ subtotalText = Total(cart)
        /\ cartCountText = Count(cart)
        /\ store["cart"].t = "json" =>
              /\ Total(store["cart"].v) = Total(cart)
              /\ Count(store["cart"].v) = Count(cart)
        /\ (last.op = "DOMContentLoaded" /\ store["cart"].t = "json") =>
              cart = store["cart"].v

\* C6: the total sent at checkout is the sum of price * quantity over the
\* lines of the cart checked out.
C6_CheckoutStep ==
    (last'.op = "proceedToCheckout" /\ cart # <<>>) => sent'.subtotal = Total(cart)

C6_Totals == []C6_TotalsState /\ [][C6_CheckoutStep]_vars

\* A cart of two lines and three items, read back by a reload.
C6_Witness ==
    /\ last.op = "DOMContentLoaded"
    /\ Len(cart) = 2
    /\ cartCountText = 3
    /\ subtotalText = 6000
    /\ store["cart"] = Stringify(cart)

\* A stored text decodes to val.
Decodes(text, val) == text.t = "json" /\ text.v = val

\* C7: with a working store, when addToCart, removeFromCart, confirmClearCart
\* or proceedToCheckout has changed the cart, or toggleFavorite has run, the
\* text stored under cart (favorites) decodes to the cart (favorites) in
\* memory.
C7_SyncStep ==
    /\ (/\ last'.op \in {"addToCart", "removeFromCart", "confirmClearCart",
                         "proceedToCheckout"}
        /\ cart' # cart)
          => Decodes(store'["cart"], cart')
    /\ last'.op = "confirmClearCart" => Decodes(store'["cart"], <<>>) /\ cart' = <<>>
    /\ last'.op = "toggleFavorite" => Decodes(store'["favorites"], favorites')

\* C7: between handlers the stored texts decode to the values in memory, or
\* are missing while the values are still empty.
C7_SyncState ==
    phase = "ready" =>
        /\ Decodes(store["cart"], cart) \/ (store["cart"].t = "absent" /\ cart = <<>>)
        /\ \/ Decodes(store["favorites"], favorites)
           \/ (store["favorites"].t = "absent" /\ favorites = <<>>)

C7_StoreInSync == []C7_SyncState /\ [][C7_SyncStep]_vars

\* A removeFromCart has just dropped a line of a cart kept next to two
\* favorites.
C7_Witness ==
    /\ last = [op |-> "removeFromCart", arg |-> 2]
    /\ Len(cart) = 1
    /\ cart[1].quantity = 2
    /\ favorites = <<1, 2>>
    /\ Decodes(store["cart"], cart)
    /\ Decodes(store["favorites"], favorites)

Members(favs) == {favs[i] : i \in 1..Len(favs)}
Others(favs, id) == SelectSeq(favs, LAMBDA x : x # id)

\* C9: toggleFavorite(id) flips the membership of id: an absent id is appended
\* at the end, a present one is removed, and the other ids keep their
\* membership and relative order.
C9_ToggleStep ==
    last'.op = "toggleFavorite" =>
        LET id == last'.arg
        IN  /\ (id \in Members(favorites')) <=> (id \notin Members(favorites))
            /\ id \notin Members(favorites) => favorites' = favorites \o <<id>>
            /\ id \in Members(favorites) => Len(favorites') = Len(favorites) - 1
            /\ Others(favorites', id) = Others(favorites, id)

\* C9: favorites never holds an id twice; two toggles of one id in a row give
\* back the original set; toggle(5) on [] gives [5], and again gives [].
C9_ToggleState ==
    /\ \A i, j \in 1..Len(favorites) : favorites[i] = favorites[j] => i = j
    /\ \A id \in FavIds :
          Members(FavoritesAfterToggle(FavoritesAfterToggle(favorites, id), id))
              = Members(favorites)
    /\ FavoritesAfterToggle(<<>>, 5) = <<5>>
    /\ FavoritesAfterToggle(<<5>>, 5) = <<>>

C9_Toggle == []C9_ToggleState /\ [][C9_ToggleStep]_vars

\* Dish 1 has just been made a favorite after dish 2.
C9_Witness ==
    /\ last = [op |-> "toggleFavorite", arg |-> 1]
    /\ favorites = <<2, 1>>
    /\ store["favorites"] = Stringify(<<2, 1>>)

\* The handlers that write to the store.
PersistingOps ==
    {"addToCart", "removeFromCart", "confirmClearCart", "proceedToCheckout",
     "toggleFavorite", "handleSaveDish"}

\* C8: when setItem throws, a handler that persists still applies its change
\* in memory, refreshes the count and the list, closes the cart and clears the
\* special request after a checkout, and lets no exception out.
C8_FailedWriteStep ==
    (storeFull /\ last'.op \in PersistingOps) =>
        /\ ~threw'
        /\ cartCountText' = Count(cart')
        /\ subtotalText' = Total(cart')
        /\ (last'.op = "proceedToCheckout" /\ cart # <<>>) =>
              /\ cart' = <<>>
              /\ cartOpen' = ~cartOpen
              /\ specialRequest' = ""
        /\ last'.op = "confirmClearCart" => cart' = <<>> /\ ~confirmShown'

C8_FailedWriteTolerated == [][C8_FailedWriteStep]_vars

\* C10: whatever menuDataCustom and the embedded snapshot hold, loadMenuData
\* throws nothing and leaves a menuData whose categories and dishes are both
\* arrays.
C10_LoadLeavesCatalog ==
    last.op \in {"DOMContentLoaded", "resetMenuData"} =>
        /\ ~threw
        /\ menuData.kind = "catalog"

\* The catalog the fallback chain of load names for a menuDataCustom text and
\* an embedded snapshot text.
ChainCatalog(custom, snapshot) ==
    IF custom.t = "json" /\ custom.v.kind = "catalog" THEN custom.v
    ELSE IF snapshot.t = "json" THEN snapshot.v
    ELSE EmptyCatalog

\* C11: whenever loadMenuData runs, at page load or from resetMenuData, it
\* leaves the stored custom catalog if that text parses and has array-valued
\* categories and dishes, otherwise the embedded snapshot, and the empty
\* catalog only if the embedded snapshot cannot be used either.
C11_LoadStep ==
    (Startup \/ ResetMenuData(TRUE)) =>
        menuData' = ChainCatalog(store'["menuDataCustom"], embedded')

C11_LoadFollowsChain == [][C11_LoadStep]_vars

\* C12: after a confirmed resetMenuData the menuDataCustom key is absent and
\* menuData is the snapshot the page was served with, so that no dish the
\* admin created, edited, deleted or imported since is left in it.
C12_ResetStep ==
    ResetMenuData(TRUE) =>
        /\ store'["menuDataCustom"].t = "absent"
        /\ menuData' = served.v

C12_ResetRestoresSnapshot == [][C12_ResetStep]_vars

\* C13: after a completed admin mutation the text under menuDataCustom and the
\* text of the embedded snapshot both decode to menuData when both writes
\* succeed, and a store write that fails does not keep the snapshot from being
\* rewritten.
C13_SaveWritesBoth ==
    (last.op = "handleSaveDish" /\ alertText = "enregistre") =>
        /\ embedded.t # "absent" => Decodes(embedded, menuData)
        /\ ~storeFull => Decodes(store["menuDataCustom"], menuData)

Ids(ds) == {ds[i].id : i \in 1..Len(ds)}

MaxOf(S) == IF S = {} THEN 0 ELSE CHOOSE m \in S : \A x \in S : x <= m

\* Batches of staged dishes handed to nextDishId.
Staged(i) == Dish(i, "Desserts", "Tarte", "", 0, 0, 1000, "", FALSE)

Batches ==
    {<<>>}
    \cup {<<Staged(i)>> : i \in 1..MaxImportId}
    \cup {<<Staged(i), Staged(j)>> : i, j \in 1..MaxImportId}

\* C14: nextDishId(batch) is 1 + the largest id among the catalog dishes and
\* the batch, 1 when both are empty, and so is the id of no dish of either.
C14_NextIdState ==
    menuData.kind = "catalog" =>
        \A b \in Batches :
            LET n == NextDishId(menuData, b)
                used == Ids(menuData.dishes) \cup Ids(b)
            IN  /\ n = 1 + MaxOf(used)
                /\ used = {} => n = 1
                /\ n \notin used

\* C14: the dish a save appends carries 1 + the largest id of the catalog.
C14_CreateStep ==
    (/\ last'.op = "handleSaveDish"
     /\ menuData.kind = "catalog"
     /\ Len(menuData'.dishes) = Len(menuData.dishes) + 1)
        => menuData'.dishes[Len(menuData'.dishes)].id = 1 + MaxOf(Ids(menuData.dishes))

C14_NextId == []C14_NextIdState /\ [][C14_CreateStep]_vars

\* A new dish has just received id 2 next to dish 1.
C14_Witness ==
    /\ last.op = "handleSaveDish"
    /\ alertText = "enregistre"
    /\ Len(menuData.dishes) = 2
    /\ menuData.dishes[1].id = 1
    /\ menuData.dishes[2].id = 2

\* C15: the dishes of one import carry distinct, strictly increasing,
\* consecutive ids in row order, none of them the id of a dish of the catalog
\* the import replaced.
C15_ImportStep ==
    (/\ last'.op = "handleExcelImport"
     /\ menuData' # menuData
     /\ menuData.kind = "catalog")
        => LET ds == menuData'.dishes
           IN  /\ \A i \in 1..(Len(ds) - 1) : ds[i + 1].id = ds[i].id + 1
               /\ \A i, j \in 1..Len(ds) : ds[i].id = ds[j].id => i = j
               /\ \A i \in 1..Len(ds) : ds[i].id \notin Ids(menuData.dishes)

C15_ImportIds == [][C15_ImportStep]_vars

\* Two rows imported over a catalog whose largest id was 1.
C15_Witness ==
    /\ last.op = "handleExcelImport"
    /\ Len(menuData.dishes) = 2
    /\ menuData.dishes[1].id = 2
    /\ menuData.dishes[2].id = 3

\* C16: from the served catalog, whose ids are unique, no sequence of saves,
\* deletes, imports and resets leaves two dishes with one id.
C16_UniqueIds ==
    \A i, j \in 1..Len(menuData.dishes) :
        menuData.dishes[i].id = menuData.dishes[j].id => i = j

\* A reset after an import of two dishes.
C16_Witness ==
    /\ last.op = "resetMenuData"
    /\ Len(menuData.dishes) = 2
    /\ menuData.dishes[1].name = "Tarte"
    /\ store["menuDataCustom"].t = "absent"

\* A form whose name is blank, whose category is empty or whose price is
\* empty, zero or not a number.
Invalid(form) ==
    \/ form.name \in {"", "   "}
    \/ form.category = ""
    \/ form.price \in {"", "0", "abc"}

\* C17: a confirmed save of a form with an empty name, an empty category or a
\* missing or zero price raises an alert and changes neither menuData nor the
\* menuDataCustom text nor the embedded snapshot.
C17_RejectStep ==
    \A form \in CatalogForms :
        (Invalid(form) /\ HandleSaveDish(form, TRUE)) =>
            /\ alertText' = "requis"
            /\ menuData' = menuData
            /\ store'["menuDataCustom"] = store["menuDataCustom"]
            /\ embedded' = embedded

C17_InvalidRejected == [][C17_RejectStep]_vars

\* An invalid form has just been refused on a catalog the admin had edited.
C17_Witness ==
    /\ last.op = "handleSaveDish"
    /\ alertText = "requis"
    /\ Len(menuData.dishes) = 2
    /\ Decodes(store["menuDataCustom"], menuData)
    /\ Decodes(embedded, menuData)

\* C18: a confirmed save of a valid form whose id is the id of a dish replaces
\* that dish in place, keeping its position, its id and the fields the form
\* does not carry; any other valid save, without an id or with an id of no
\* dish, appends exactly one dish under the id nextDishId allocates.
C18_SaveStep ==
    \A form \in CatalogForms :
        (~Invalid(form) /\ menuData.kind = "catalog" /\ HandleSaveDish(form, TRUE)) =>
            LET old == menuData.dishes
                new == menuData'.dishes
                hits == {k \in 1..Len(old) : ToString(old[k].id) = form.id}
            IN  IF hits # {}
                THEN /\ Len(new) = Len(old)
                     /\ \A k \in 1..Len(old) :
                           IF k \in hits
                           THEN /\ new[k].id = old[k].id
                                /\ new[k].popular = old[k].popular
                                /\ new[k].name = "Tarte"
                                /\ new[k].price = 1000
                           ELSE new[k] = old[k]
                ELSE /\ Len(new) = Len(old) + 1
                     /\ SubSeq(new, 1, Len(old)) = old
                     /\ new[Len(new)].id = 1 + MaxOf(Ids(old))

C18_UpdateOrAppend == [][C18_SaveStep]_vars

\* The entries of categories named name.
Named(md, name) == {j \in 1..Len(md.categories) : md.categories[j].name = name}

\* C19: from the served catalog, in which every dish's category names exactly
\* one entry of categories, every catalog reached by saves, deletes and
\* imports is such a catalog, and no name is listed twice.
C19_CategoriesListed ==
    /\ \A i \in 1..Len(menuData.dishes) :
          Cardinality(Named(menuData, menuData.dishes[i].category)) = 1
    /\ \A j, k \in 1..Len(menuData.categories) :
          menuData.categories[j].name = menuData.categories[k].name => j = k

\* A save has added the category Desserts for its dish, next to Plats.
C19_Witness ==
    /\ last.op = "handleSaveDish"
    /\ alertText = "enregistre"
    /\ Len(menuData.categories) = 2
    /\ menuData.categories[2].name = "Desserts"
    /\ \E i \in 1..Len(menuData.dishes) : menuData.dishes[i].category = "Desserts"
    /\ \E i \in 1..Len(menuData.dishes) : menuData.dishes[i].category = "Plats"

\* C20: a confirmed delete of a dish of the catalog removes that dish alone,
\* leaves the other dishes and the categories as they were and in their order,
\* and saves the result; a delete of an id of no dish changes neither menuData
\* nor its stored copies.
C20_DeleteStep ==
    \A id \in ButtonIds :
        (menuData.kind = "catalog" /\ DeleteDish(id, TRUE)) =>
            LET hits == {k \in 1..Len(menuData.dishes) : menuData.dishes[k].id = id}
            IN  IF hits # {}
                THEN /\ menuData'.dishes =
                            Without(menuData.dishes, CHOOSE k \in hits : TRUE)
                     /\ menuData'.categories = menuData.categories
                     /\ Decodes(store'["menuDataCustom"], menuData')
                     /\ Decodes(embedded', menuData')
                ELSE /\ menuData' = menuData
                     /\ store'["menuDataCustom"] = store["menuDataCustom"]
                     /\ embedded' = embedded

C20_Delete == [][C20_DeleteStep]_vars

\* The second of two dishes has just been deleted.
C20_Witness ==
    /\ last = [op |-> "deleteDish", arg |-> 2]
    /\ Len(menuData.dishes) = 1
    /\ menuData.dishes[1].id = 1
    /\ Len(menuData.categories) = 2
    /\ Decodes(store["menuDataCustom"], menuData)


\* C21: a confirmed save of a valid form whose id is the id of no dish of the
\* catalog changes nothing and says nothing: menuData, the menuDataCustom
\* text and the embedded snapshot are as before and no alert is raised.
C21_StaleEditStep ==
    \A form \in CatalogForms :
        (/\ ~Invalid(form)
         /\ form.id # ""
         /\ menuData.kind = "catalog"
         /\ \A k \in 1..Len(menuData.dishes) : ToString(menuData.dishes[k].id) # form.id
         /\ HandleSaveDish(form, TRUE)) =>
            /\ menuData' = menuData
            /\ store'["menuDataCustom"] = store["menuDataCustom"]
            /\ embedded' = embedded
            /\ alertText' = ""

C21_StaleEditIsNoOp == [][C21_StaleEditStep]_vars

\* The header cells that read as the three required labels.
RequiredCells ==
    [categorie |-> {"Categorie"}, nom |-> {"Nom", " NOM "}, prix |-> {"Prix", "PRIX"}]

HasColumn(header, cells) == \E i \in 1..Len(header) : header[i] \in cells

ColumnOf(header, cells) ==
    CHOOSE i \in 1..Len(header) :
        header[i] \in cells /\ \A j \in 1..(i - 1) : header[j] \notin cells

Complete(header) == \A lbl \in DOMAIN RequiredCells : HasColumn(header, RequiredCells[lbl])

\* C22: an import of a sheet whose header row lacks the category, the name
\* or the price column raises an alert and changes neither menuData nor the
\* menuDataCustom text nor the embedded snapshot.
C22_RejectStep ==
    \A rows \in CatalogSheets :
        (rows # <<>> /\ ~Complete(rows[1]) /\ HandleExcelImport(rows, MaxImportId)) =>
            /\ alertText' = "colonnes"
            /\ menuData' = menuData
            /\ store'["menuDataCustom"] = store["menuDataCustom"]
            /\ embedded' = embedded

C22_HeaderRequired == [][C22_RejectStep]_vars

\* A sheet without its columns has just been refused on an edited catalog.
C22_Witness ==
    /\ last.op = "handleExcelImport"
    /\ alertText = "colonnes"
    /\ Len(menuData.dishes) = 2
    /\ Decodes(store["menuDataCustom"], menuData)
    /\ Decodes(embedded, menuData)

\* The cell of row r in column k, '' past the end of the row.
TextAt(r, k) == IF k <= Len(r) THEN r[k] ELSE ""

Blank == {"", "   "}

\* C23: an import that goes through leaves as dishes, in row order, one dish
\* per data row whose category and name cells are both filled, as categories
\* the distinct category names of those rows, each once, and keeps no dish id
\* and no other category of the catalog it replaces.
C23_ImportStep ==
    \A rows \in CatalogSheets :
        (/\ rows # <<>>
         /\ Complete(rows[1])
         /\ menuData.kind = "catalog"
         /\ HandleExcelImport(rows, MaxImportId)) =>
            LET cc == ColumnOf(rows[1], RequiredCells.categorie)
                cn == ColumnOf(rows[1], RequiredCells.nom)
                kept == SelectSeq(Tail(rows),
                                  LAMBDA r : TextAt(r, cc) \notin Blank
                                             /\ TextAt(r, cn) \notin Blank)
                new == menuData'.dishes
                names == {Trim(TextAt(kept[i], cc)) : i \in 1..Len(kept)}
            IN  /\ alertText' = ""
                /\ menuData'.kind = "catalog"
                /\ Len(new) = Len(kept)
                /\ \A i \in 1..Len(kept) :
                      /\ new[i].category = Trim(TextAt(kept[i], cc))
                      /\ new[i].name = Trim(TextAt(kept[i], cn))
                /\ {menuData'.categories[j].name : j \in 1..Len(menuData'.categories)} = names
                /\ Len(menuData'.categories) = Cardinality(names)
                /\ \A i \in 1..Len(new), k \in 1..Len(menuData.dishes) :
                      new[i].id # menuData.dishes[k].id

C23_ImportReplaces == [][C23_ImportStep]_vars

\* The sheet of three data rows, one of them without a name, has been
\* imported over the served catalog: two dishes, the one category Desserts.
C23_Witness ==
    /\ last.op = "handleExcelImport"
    /\ alertText = ""
    /\ Len(menuData.dishes) = 2
    /\ menuData.categories = <<[name |-> "Desserts"]>>
    /\ \A i \in 1..2 : menuData.dishes[i].name = "Tarte"

\* C24: every dish of the catalog has an id of at least 1, a price above 0
\* and calories and proteins of at least 0.
C24_FieldsInRange ==
    menuData.kind = "catalog" =>
        \A k \in 1..Len(menuData.dishes) :
            LET d == menuData.dishes[k]
            IN  d.id >= 1 /\ d.price > 0 /\ d.calories >= 0 /\ d.proteins >= 0

\* The order stats a store holds, and a counter of them (0 when not there).
StatsOf(st) == IF st["orderStats"].t = "json" THEN st["orderStats"].v ELSE NoStats

Counter(f, key) == IF key \in DOMAIN f THEN f[key] ELSE 0

\* The counters new are the counters old with the quantities of lines added
\* under the keys KeyOf gives the lines, and nothing else.
Added(old, new, lines, KeyOf(_)) ==
    /\ DOMAIN new = DOMAIN old \cup {KeyOf(lines[i]) : i \in 1..Len(lines)}
    /\ \A key \in DOMAIN new :
          new[key] = Counter(old, key)
                     + SumOver([i \in 1..Len(lines) |-> lines[i].quantity],
                               {i \in 1..Len(lines) : KeyOf(lines[i]) = key})

DishKey(line) == ToString(line.id)
CategoryKey(line) == line.category

Recorded(st, st2, lines) ==
    /\ st2["orderStats"].t = "json"
    /\ Added(StatsOf(st).dishes, StatsOf(st2).dishes, lines, DishKey)
    /\ Added(StatsOf(st).categories, StatsOf(st2).categories, lines, CategoryKey)

\* C25: recordOrder on no lines leaves the store as it is; on the lines of a
\* cart it adds each line's quantity to the counter of its dish id and to the
\* counter of its category, a missing counter counting as 0, and stores the
\* result as the orderStats text.  A line of quantity 3 recorded twice on
\* empty stats leaves 6 under its dish and 6 under its category.
C25_RecordState ==
    /\ RecordOrder(store, storeFull, <<>>) = store
    /\ \A n \in 1..Len(cart) :
          Recorded(store, RecordOrder(store, storeFull, SubSeq(cart, 1, n)), SubSeq(cart, 1, n))
    /\ LET line == [id |-> 1, category |-> "Plats", quantity |-> 3]
           twice == RecordOrder(RecordOrder(EmptyStore, FALSE, <<line>>), FALSE, <<line>>)
       IN  /\ Counter(StatsOf(twice).dishes, "1") = 6
           /\ Counter(StatsOf(twice).categories, "Plats") = 6

C25_RecordStep ==
    last'.op = "proceedToCheckout" =>
        IF cart = <<>>
        THEN store'["orderStats"] = store["orderStats"]
        ELSE Recorded(store, store', cart)

C25_Record == []C25_RecordState /\ [][C25_RecordStep]_vars

\* Three Poulet have just been ordered for the second time.
C25_Witness ==
    /\ last.op = "proceedToCheckout"
    /\ sent.items = <<[quantity |-> 3, name |-> "Poulet"]>>
    /\ StatsOf(store).dishes["1"] = 6
    /\ StatsOf(store).categories["Plats"] = 6

\* C26: no step of a session, whether of the cart, of a checkout, of the
\* favorites or of the admin panel, lowers a counter of the order stats or
\* removes one.
C26_MonotoneStep ==
    \A m \in {"dishes", "categories"} :
        \A key \in DOMAIN StatsOf(store)[m] :
            /\ key \in DOMAIN StatsOf(store')[m]
            /\ StatsOf(store')[m][key] >= StatsOf(store)[m][key]

C26_StatsMonotone == [][C26_MonotoneStep]_vars

\* Two orders of dish 1, which the admin moved to another category in
\* between, are counted, and the menu has since been reset.
C26_Witness ==
    /\ DOMAIN StatsOf(store).categories = {"Plats", "Desserts"}
    /\ StatsOf(store).dishes["1"] = 2
    /\ store["menuDataCustom"].t # "json"
    /\ favorites = <<1>>

\* C27: a checkout of a cart with lines sends the quantity and name of each
\* line in order, the trimmed request and the total of the lines, adds the
\* lines to the order stats, and leaves cart and the cart text empty; a
\* checkout of an empty cart sends nothing and leaves every variable of the
\* page and of the store as it was.
C27_CheckoutStep ==
    last'.op = "proceedToCheckout" =>
        IF cart # <<>>
        THEN /\ sent'.items = [i \in 1..Len(cart) |->
                                 [quantity |-> cart[i].quantity, name |-> cart[i].name]]
             /\ sent'.subtotal = Total(cart)
             /\ sent'.request = (IF specialRequest = " sans piment "
                                 THEN "sans piment" ELSE specialRequest)
             /\ Recorded(store, store', cart)
             /\ cart' = <<>>
             /\ Decodes(store'["cart"], <<>>)
        ELSE /\ sent' = NoOrder
             /\ UNCHANGED <<phase, dataVars, persistVars, uiVars, adminVars>>

C27_Checkout == [][C27_CheckoutStep]_vars

\* A cart of two lines has been ordered with a request.
C27_Witness ==
    /\ last.op = "proceedToCheckout"
    /\ Len(sent.items) = 2
    /\ sent.request = "sans piment"
    /\ cart = <<>>
    /\ Decodes(store["cart"], <<>>)
    /\ DOMAIN StatsOf(store).dishes = {"1", "2"}

\* The steps of the customer in a session.
CustomerStep ==
    \/ AddToCart(1)
    \/ RemoveFromCart(1)
    \/ ClearCartItems
    \/ ConfirmClearCart
    \/ ProceedToCheckout(MaxStat)
    \/ ToggleFavorite(1)

\* C29: a step of the cart, of the checkout or of the favorites leaves
\* menuData, the menuDataCustom text and the embedded snapshot as they were;
\* a save, a delete, an import or a reset by the admin leaves favorites, the
\* favorites text and the orderStats text as they were; a favorites toggle
\* leaves cart and the cart text as they were.
C29_FrameStep ==
    /\ CustomerStep =>
          /\ menuData' = menuData
          /\ store'["menuDataCustom"] = store["menuDataCustom"]
          /\ embedded' = embedded
    /\ AdminStep =>
          /\ favorites' = favorites
          /\ store'["favorites"] = store["favorites"]
          /\ store'["orderStats"] = store["orderStats"]
    /\ ToggleFavorite(1) =>
          /\ cart' = cart
          /\ store'["cart"] = store["cart"]

C29_Frames == [][C29_FrameStep]_vars

\* The admin has added a dish while the page holds a cart, a favorite and
\* counted orders.
C29_Witness ==
    /\ Len(menuData.dishes) = 2
    /\ Decodes(store["menuDataCustom"], menuData)
    /\ cart # <<>>
    /\ Decodes(store["cart"], cart)
    /\ Decodes(store["favorites"], <<1>>)
    /\ StatsOf(store).dishes # <<>>

\* C28: whenever the admin content is on display, an unlock attempt made
\* since the modal was last opened supplied a text equal, character for
\* character, to the passcode.
C28_ContentGated == (admin.modal /\ admin.content) => gate.exact

\* C30: with malformed JSON under cart, favorites or orderStats no handler
\* lets an exception out: the startup still loads the favorites text when it
\* is JSON, leaves cart or favorites empty when their text is malformed, and
\* an unlock of the admin panel runs to its end.
C30_MalformedStep ==
    /\ last'.op = "DOMContentLoaded" =>
          /\ ~threw'
          /\ store["favorites"].t = "json" => favorites' = store["favorites"].v
          /\ store["favorites"].t = "garbage" => favorites' = <<>>
          /\ store["cart"].t = "garbage" => cart' = <<>>
    /\ last'.op = "unlockAdmin" => ~threw'
    /\ last'.op = "proceedToCheckout" => ~threw'

C30_MalformedTolerated == [][C30_MalformedStep]_vars

\* C31: every write of the order stats, by a checkout of this page or by the
\* recordOrder of another page instance, leaves the counters that were in the
\* store just before it with the quantities of the lines it records added:
\* no quantity recorded by a completed checkout is lost.
C31_RecordStep ==
    /\ (last'.op = "proceedToCheckout" /\ cart # <<>> /\ last' # last) =>
          Recorded(store, store', cart)
    /\ (other.pc = "read" /\ other'.pc = "idle") => Recorded(store, store', other.lines)

C31_NoLostUpdate == [][C31_RecordStep]_vars

\* C40: from empty order stats, after any sequence of checkouts, the per-dish
\* counters and the per-category counters both add up to the quantity of all
\* the lines checked out so far.
C40_SumsAgree ==
    LET dishes == StatsOf(store).dishes
        categories == StatsOf(store).categories
    IN  /\ SumOver(dishes, DOMAIN dishes) = ordered
        /\ SumOver(categories, DOMAIN categories) = ordered

\* Six items of two dishes have been ordered over several checkouts.
C40_Witness ==
    /\ ordered = MaxOrdered
    /\ DOMAIN StatsOf(store).dishes = {"1", "2"}
    /\ StatsOf(store).dishes["1"] > MaxQty
    /\ last.op = "proceedToCheckout"

\* C32: a promise returned by initializeAdminComponents(0, maxRetries) runs
\* at most maxRetries attempts after its first one, and is eventually
\* resolved (or gone with its page), whether the modal is missing or initAdmin
\* or initEventListeners fails.
C32_Bounded ==
    \A i \in 1..Len(calls) : calls[i].attempts <= calls[i].maxRetries + 1

C32_Resolves ==
    /\ []C32_Bounded
    /\ \A i \in 1..MaxCalls :
          [](Len(calls) >= i => <>(Len(calls) < i \/ calls[i].state # "pending"))

\* The promises that are not resolved.
Pending == {i \in 1..Len(calls) : calls[i].state = "pending"}

\* C33: adminInitialized, once true, stays true on the page; a call made when
\* it is true resolves true and a call made while an initialization is in
\* progress resolves false, neither running initAdmin; at most one promise is
\* pending at any time.
C33_CallStep ==
    /\ (adminInitialized /\ last'.op # "script") => adminInitialized'
    /\ (last'.op \in {"initializeAdminComponents", "DOMContentLoaded"}
        /\ Len(calls') = Len(calls) + 1) =>
          LET p == calls'[Len(calls')]
          IN  /\ adminInitialized => (p.state = "true" /\ p.attempts = 0 /\ initRuns' = initRuns)
              /\ (~adminInitialized /\ adminInitializationInProgress) =>
                    (p.state = "false" /\ p.attempts = 0 /\ initRuns' = initRuns)

C33_OneChain == [](Cardinality(Pending) <= 1) /\ [][C33_CallStep]_vars

\* A second call has been refused while the first one waits for its timer.
C33_Witness ==
    /\ Len(calls) = 2
    /\ calls[1].state = "pending"
    /\ calls[1].timer # "none"
    /\ calls[2].state = "false"
    /\ calls[2].attempts = 0
    /\ adminInitializationInProgress

\* C34: when a promise of initializeAdminComponents has been resolved and no
\* promise waits for a timer, adminInitializationInProgress is false.
C34_FlagReleased ==
    (calls # <<>> /\ \A i \in 1..Len(calls) : calls[i].state # "pending" /\ calls[i].timer = "none")
        => ~adminInitializationInProgress

\* The DOM listeners the registry accounts for.
Tracked ==
    UNION {{DomListener(k[1], k[2], eventListeners[k][i].handler, eventListeners[k][i].options) :
               i \in 1..Len(eventListeners[k])} : k \in DOMAIN eventListeners}

NoDuplicates ==
    \A k \in DOMAIN eventListeners :
        \A i, j \in 1..Len(eventListeners[k]) :
            eventListeners[k][i] = eventListeners[k][j] => i = j

\* C35: the registry holds exactly the listeners attached, without
\* duplicates, and the cleanup function returned by a registration leaves
\* none of that registration's listeners attached.
C35_Exact == attached = Tracked /\ NoDuplicates

C35_CleanupStep ==
    \A c \in Registrations :
        Cleanup(c) =>
            \A i \in 1..Len(c.events) :
                DomListener(c.element, c.events[i], c.handler, c.options) \notin attached'

C35_RegistryExact == []C35_Exact /\ [][C35_CleanupStep]_vars

\* The steps that ask the carousel for another slide.
NavigationStep ==
    \/ CarouselNext
    \/ CarouselPrev
    \/ \E index \in -1..MaxDishes : CarouselGoTo(index)
    \/ AutoSlideTick

\* C36: navigation asked while isAnimating leaves the carousel as it is;
\* while isAnimating the timer that releases it is pending; currentIndex is
\* the index of a slide (0 when there is none).
C36_Released == carousel.isAnimating => carousel.transition

C36_ValidIndex ==
    /\ carousel.currentIndex >= 0
    /\ carousel.currentIndex < carousel.slides \/ carousel.currentIndex = 0

C36_IgnoredStep == (carousel.isAnimating /\ NavigationStep) => carousel' = carousel

C36_Carousel == [](C36_Released /\ C36_ValidIndex) /\ [][C36_IgnoredStep]_vars

\* The entries of the current cache.
CurrentCache == IF CACHE_NAME \in DOMAIN caches THEN caches[CACHE_NAME] ELSE {}

\* C37: a GET navigation is answered with the network response, which is
\* also in the current cache afterwards, when the fetch succeeds; otherwise
\* with the cached index page, else the cached copy of the request, else the
\* 503 offline response; it is never answered with an error.  A request that
\* is not a GET is left to the browser.
C37_NavigateStep ==
    /\ \A i \in 1..Len(requests) :
          (requests[i].mode = "navigate" /\ NetworkOk(i)) =>
              /\ answered' = Answer(requests[i], "network")
              /\ CACHE_NAME \in DOMAIN caches'
              /\ requests[i].url \in caches'[CACHE_NAME]
    /\ \A i \in 1..Len(requests) :
          (requests[i].mode = "navigate" /\ NetworkFail(i)) =>
              answered' = Answer(requests[i],
                                 IF "/index.html" \in CurrentCache THEN "index"
                                 ELSE IF requests[i].url \in CurrentCache THEN "cache"
                                 ELSE "offline")
    /\ \A req \in FetchRequests :
          (req.method # "GET" /\ FetchEvent(req)) =>
              /\ answered' = Answer(req, "browser")
              /\ UNCHANGED <<caches, requests>>

C37_Answered ==
    (answered.method = "GET" /\ answered.mode = "navigate")
        => answered.from \in {"network", "index", "cache", "offline"}

C37_Navigation == []C37_Answered /\ [][C37_NavigateStep]_vars

\* A navigation was answered with the offline response.
C37_Witness ==
    /\ answered.method = "GET"
    /\ answered.mode = "navigate"
    /\ answered.from = "offline"

\* A same-origin GET that is not a navigation.
StaticAsset(req) == req.method = "GET" /\ req.mode # "navigate" /\ req.sameOrigin

\* C38: a static asset found in the current cache is answered from it with
\* no fetch started; after a miss the network response is returned and is in
\* the cache; entries stay in the current cache; once the worker is activated
\* the current cache is the only cache.
C38_CacheStep ==
    /\ \A req \in FetchRequests :
          (StaticAsset(req) /\ req.url \in CurrentCache /\ FetchEvent(req)) =>
              /\ answered' = Answer(req, "cache")
              /\ requests' = requests
    /\ \A i \in 1..Len(requests) :
          (StaticAsset(requests[i]) /\ NetworkOk(i)) =>
              /\ answered' = Answer(requests[i], "network")
              /\ requests[i].url \in caches'[CACHE_NAME]
    /\ worker = "activated" =>
          \A url \in CurrentCache : CACHE_NAME \in DOMAIN caches' /\ url \in caches'[CACHE_NAME]

C38_OnlyCurrent == worker = "activated" => DOMAIN caches = {CACHE_NAME}

C38_CacheFirst == []C38_OnlyCurrent /\ [][C38_CacheStep]_vars

\* An asset outside the core assets was fetched once and is now answered from
\* the cache.
C38_Witness ==
    /\ worker = "activated"
    /\ answered = [method |-> "GET", mode |-> "no-cors", url |-> "/assets/menu.json", from |-> "cache"]
    /\ "/assets/menu.json" \in CurrentCache

\* C39: at most one debounce timer is pending; the input holds the value of
\* the last keystroke or nothing, and a timer that fires filters by that
\* value, trimmed and in lower case; when the overlay is closed and no timer
\* is pending, no dish card is hidden.
C39_State ==
    /\ search.timers <= 1
    /\ search.value \in {search.typed, ""}
    /\ (~search.open /\ search.timers = 0) => hiddenCards = {}

C39_TimerStep ==
    SearchTimeout =>
        /\ search'.ran \in {ToLowerCase(Trim(search.typed)), ""}
        /\ ~search.open => hiddenCards' = {}

====
